---------------------------- MODULE Spec2Model ----------------------------
(***************************************************************************)
(* A state-machine model of the optical entropy pipeline: the statistical  *)
(* tests and quality thresholds, the health monitor, the entropy pool and  *)
(* its conditioner, the reseedable generator, and the driving loops.       *)
(*                                                                         *)
(* Numbers.  The source computes statistics in f64.  The model computes    *)
(* them exactly: a statistic is a ratio of integers, and a comparison      *)
(* with a threshold is a cross-multiplication.  TLC's integers are 32 bits *)
(* wide, so the sums of products that the autocorrelation needs are kept   *)
(* as two-limb numbers <<hi, lo>> (value hi * WideBase + lo).              *)
(*                                                                         *)
(* Hashes.  BLAKE3, SHA-256 and ChaCha20 are modelled as free (injective)  *)
(* constructors over their inputs: two digests are equal exactly when      *)
(* their inputs are equal.                                                 *)
(***************************************************************************)
EXTENDS Integers, Sequences, FiniteSets, TLC

VARIABLES
    health,     \* HealthMonitor {thresholds, metrics, required_healthy_streak}
    pool,       \* EntropyPool {buffer, config, total_bits_added, total_extractions}
    rng,        \* ReseedableRng (first instance)
    rng2,       \* ReseedableRng (second instance, built from the same seed)
    extractor,  \* Extractor {temporal.previous, spatial.stride}
    driver,     \* locals of the driving loop (run_pipeline / generate_random)
    hist,       \* observer: outcomes of the calls made so far
    last        \* observer: the last operation, its input, result and pre-state

vars == <<health, pool, rng, rng2, extractor, driver, hist, last>>

None == [none |-> TRUE]
Some(x) == [some |-> x]
IsSome(o) == o # None

----------------------------------------------------------------------------
(* Integer helpers *)

Min(a, b) == IF a <= b THEN a ELSE b
Max(a, b) == IF a >= b THEN a ELSE b
Abs(x) == IF x < 0 THEN -x ELSE x

\* usize::saturating_sub
saturating_sub(a, b) == IF a >= b THEN a - b ELSE 0

\* u8::abs_diff
abs_diff(c, p) == IF c >= p THEN c - p ELSE p - c

RECURSIVE count_ones(_)
\* u8::count_ones
count_ones(b) == IF b = 0 THEN 0 ELSE (b % 2) + count_ones(b \div 2)

RECURSIVE BitXor(_, _)
\* the ^ operator on u8
BitXor(a, b) ==
    IF a = 0 /\ b = 0 THEN 0
    ELSE (((a % 2) + (b % 2)) % 2) + 2 * BitXor(a \div 2, b \div 2)

RECURSIVE SumRange(_, _, _)
\* s[lo] + ... + s[hi], by halving the range
SumRange(s, lo, hi) ==
    IF lo > hi THEN 0
    ELSE IF lo = hi THEN s[lo]
    ELSE LET mid == (lo + hi) \div 2
         IN  SumRange(s, lo, mid) + SumRange(s, mid + 1, hi)

\* s[1] + ... + s[i]
SumSeq(s, i) == SumRange(s, 1, i)

\* s[1]^2 + ... + s[i]^2
SumSquares(s, i) == SumRange([k \in 1..i |-> s[k] * s[k]], 1, i)

\* Two-limb integers: <<hi, lo>> stands for hi * WideBase + lo, 0 <= lo < WideBase.
WideBase == 256 * 256
WNorm(h, l) == <<h + (l \div WideBase), l % WideBase>>
WFromInt(x) == WNorm(0, x)
WScale(a, k) == WNorm(a[1] * k, a[2] * k)
WNeg(a) == WNorm(-a[1], -a[2])
WAbs(a) == IF a[1] < 0 THEN WNeg(a) ELSE a
WLess(a, b) == a[1] < b[1] \/ (a[1] = b[1] /\ a[2] < b[2])
WIsZero(a) == a = <<0, 0>>

\* the two limbs of d[1]*d[1+lag] + ... + d[i]*d[i+lag]
SumProdHi(d, lag, i) ==
    SumRange([k \in 1..i |-> (d[k] * d[k + lag]) \div WideBase], 1, i)
SumProdLo(d, lag, i) ==
    SumRange([k \in 1..i |-> (d[k] * d[k + lag]) % WideBase], 1, i)
WSumProd(d, lag, i) == WNorm(SumProdHi(d, lag, i), SumProdLo(d, lag, i))

----------------------------------------------------------------------------
(* extraction/bitstream.rs: RawBits *)

\* RawBits::from_bytes
RawBits_from_bytes(data, source_frames) ==
    [data |-> data, source_frames |-> source_frames]

\* RawBits::len
RawBits_len(raw) == Len(raw.data)

\* RawBits::bit_count
bit_count(raw) == Len(raw.data) * 8

\* RawBits::popcount
popcount(raw) == SumSeq([i \in 1..Len(raw.data) |-> count_ones(raw.data[i])], Len(raw.data))

\* bit_bias that reports the fraction of one bits, without the - 0.5
bit_bias_ones_fraction(raw) ==
    IF Len(raw.data) = 0 THEN <<0, 1>>
    ELSE <<popcount(raw), bit_count(raw)>>

\* RawBits::bit_bias, as the exact ratio <<numerator, denominator>> of
\* (ones / total) - 0.5 = (2 * ones - total) / (2 * total)
bit_bias(raw) ==
    IF Len(raw.data) = 0 THEN <<0, 1>>
    ELSE <<2 * popcount(raw) - bit_count(raw), 2 * bit_count(raw)>>

----------------------------------------------------------------------------
(* analysis/statistics.rs: StatisticalTests *)

\* n * b[i] - sum(b): the deviation of byte i from the mean, scaled by n
Deviations(data) ==
    LET n == Len(data)
        s == SumSeq(data, n)
    IN  [i \in 1..n |-> n * data[i] - s]

\* StatisticalTests::compute_variance, as the exact ratio <<numerator, denominator>>:
\* sum((b - mean)^2) / n = (n * sum(b^2) - sum(b)^2) / n^2
compute_variance(data) ==
    LET n == Len(data)
        s == SumSeq(data, n)
    IN  IF n = 0 THEN <<0, 1>>
        ELSE <<n * SumSquares(data, n) - s * s, n * n>>

\* compute_autocorrelation without the zero-variance rule: 0 / 0 taken as 0
compute_autocorrelation_no_constant_rule(data) ==
    LET n == Len(data)
        d == Deviations(data)
        variance == WSumProd(d, 0, n)
        covariance == WSumProd(d, 1, n - 1)
    IN  IF n < 2 \/ WIsZero(variance) THEN [num |-> <<0, 0>>, den |-> <<0, 1>>]
        ELSE [num |-> covariance, den |-> variance]

\* StatisticalTests::compute_autocorrelation, as the exact ratio of two
\* two-limb integers: covariance and variance are both scaled by n^2
compute_autocorrelation(data) ==
    LET n == Len(data)
        d == Deviations(data)
        variance == WSumProd(d, 0, n)
        covariance == WSumProd(d, 1, n - 1)
    IN  IF n < 2 THEN [num |-> <<0, 0>>, den |-> <<0, 1>>]
        ELSE IF WIsZero(variance) THEN [num |-> <<0, 1>>, den |-> <<0, 1>>]
        ELSE [num |-> covariance, den |-> variance]

\* StatisticalTests::analyze
StatisticalTests_analyze(raw) ==
    [bit_bias |-> bit_bias(raw),
     variance |-> compute_variance(raw.data),
     autocorrelation |-> compute_autocorrelation(raw.data),
     sample_size |-> Len(raw.data)]

----------------------------------------------------------------------------
(* analysis/threshold.rs: QualityThresholds *)

\* Each bound is the ratio <<numerator, denominator>> of its decimal literal.
QualityThresholds_default ==
    [max_bit_bias |-> <<5, 100>>, min_variance |-> <<500, 1>>,
     max_autocorrelation |-> <<3, 10>>]

QualityThresholds_conservative ==
    [max_bit_bias |-> <<2, 100>>, min_variance |-> <<1000, 1>>,
     max_autocorrelation |-> <<1, 10>>]

QualityThresholds_permissive ==
    [max_bit_bias |-> <<2, 10>>, min_variance |-> <<100, 1>>,
     max_autocorrelation |-> <<5, 10>>]

\* stats.bit_bias.abs() > max_bit_bias
BiasExceeds(stats, th) ==
    Abs(stats.bit_bias[1]) * th.max_bit_bias[2] > th.max_bit_bias[1] * stats.bit_bias[2]

\* stats.variance < min_variance
VarianceBelow(stats, th) ==
    stats.variance[1] * th.min_variance[2] < th.min_variance[1] * stats.variance[2]

\* stats.autocorrelation.abs() > max_autocorrelation
AutocorrelationExceeds(stats, th) ==
    WLess(WScale(stats.autocorrelation.den, th.max_autocorrelation[1]),
          WScale(WAbs(stats.autocorrelation.num), th.max_autocorrelation[2]))

Ok == [ok |-> TRUE]
Err(e) == [err |-> e]
IsOk(r) == r = Ok

\* check with the variance bound tested before the bias bound
QualityThresholds_check_variance_first(th, stats) ==
    IF VarianceBelow(stats, th)
    THEN Err([kind |-> "LowVariance", observed |-> stats.variance,
              threshold |-> th.min_variance])
    ELSE IF BiasExceeds(stats, th)
    THEN Err([kind |-> "BitBias", observed |-> stats.bit_bias,
              threshold |-> th.max_bit_bias])
    ELSE IF AutocorrelationExceeds(stats, th)
    THEN Err([kind |-> "HighAutocorrelation", observed |-> stats.autocorrelation,
              threshold |-> th.max_autocorrelation])
    ELSE Ok

\* QualityThresholds::check
QualityThresholds_check(th, stats) ==
    IF BiasExceeds(stats, th)
    THEN Err([kind |-> "BitBias", observed |-> stats.bit_bias,
              threshold |-> th.max_bit_bias])
    ELSE IF VarianceBelow(stats, th)
    THEN Err([kind |-> "LowVariance", observed |-> stats.variance,
              threshold |-> th.min_variance])
    ELSE IF AutocorrelationExceeds(stats, th)
    THEN Err([kind |-> "HighAutocorrelation", observed |-> stats.autocorrelation,
              threshold |-> th.max_autocorrelation])
    ELSE Ok

----------------------------------------------------------------------------
(* analysis/health.rs: HealthMetrics, HealthMonitor *)

\* HealthMetrics::default with the health flag set (fail-open)
HealthMetrics_default_fail_open ==
    [latest_stats |-> None,
     is_healthy |-> TRUE,
     last_violation |-> None,
     consecutive_healthy |-> 0,
     consecutive_unhealthy |-> 0,
     total_samples |-> 0]

\* HealthMetrics::default
HealthMetrics_default ==
    [latest_stats |-> None,
     is_healthy |-> FALSE,
     last_violation |-> None,
     consecutive_healthy |-> 0,
     consecutive_unhealthy |-> 0,
     total_samples |-> 0]

\* new with a required streak of 2
HealthMonitor_new_streak_two(thresholds) ==
    [thresholds |-> thresholds,
     metrics |-> HealthMetrics_default,
     required_healthy_streak |-> 2]

\* HealthMonitor::new
HealthMonitor_new(thresholds) ==
    [thresholds |-> thresholds,
     metrics |-> HealthMetrics_default,
     required_healthy_streak |-> 3]

\* with_streak_requirement without streak.max(1)
HealthMonitor_with_streak_requirement_unclamped(thresholds, streak) ==
    [thresholds |-> thresholds,
     metrics |-> HealthMetrics_default,
     required_healthy_streak |-> streak]

\* HealthMonitor::with_streak_requirement
HealthMonitor_with_streak_requirement(thresholds, streak) ==
    [thresholds |-> thresholds,
     metrics |-> HealthMetrics_default,
     required_healthy_streak |-> Max(streak, 1)]

\* HealthMonitor::default
HealthMonitor_default == HealthMonitor_new(QualityThresholds_default)

\* the Ok(()) arm with the streak compared by > instead of >=
analyze_ok_late(m, required) ==
    LET m1 == [m EXCEPT !.consecutive_healthy = @ + 1,
                        !.consecutive_unhealthy = 0,
                        !.last_violation = None]
    IN  IF m1.consecutive_healthy > required
        THEN [m1 EXCEPT !.is_healthy = TRUE]
        ELSE m1

\* the Ok(()) arm without last_violation = None
analyze_ok_keeps_violation(m, required) ==
    LET m1 == [m EXCEPT !.consecutive_healthy = @ + 1,
                        !.consecutive_unhealthy = 0]
    IN  IF m1.consecutive_healthy >= required
        THEN [m1 EXCEPT !.is_healthy = TRUE]
        ELSE m1

\* the Ok(()) arm of analyze, applied to the metrics after total_samples += 1
analyze_ok(m, required) ==
    LET m1 == [m EXCEPT !.consecutive_healthy = @ + 1,
                        !.consecutive_unhealthy = 0,
                        !.last_violation = None]
    IN  IF m1.consecutive_healthy >= required
        THEN [m1 EXCEPT !.is_healthy = TRUE]
        ELSE m1

\* the Err(violation) arm without the unconditional is_healthy = false
analyze_err_keeps_health(m, violation) ==
    [m EXCEPT !.consecutive_unhealthy = @ + 1,
              !.consecutive_healthy = 0,
              !.last_violation = Some(violation)]

\* the Err(violation) arm without consecutive_healthy = 0
analyze_err_keeps_streak(m, violation) ==
    [m EXCEPT !.consecutive_unhealthy = @ + 1,
              !.last_violation = Some(violation),
              !.is_healthy = FALSE]

\* the Err(violation) arm of analyze
analyze_err(m, violation) ==
    [m EXCEPT !.consecutive_unhealthy = @ + 1,
              !.consecutive_healthy = 0,
              !.last_violation = Some(violation),
              !.is_healthy = FALSE]

\* HealthMonitor::analyze: the monitor after the call (the result is its metrics)
HealthMonitor_analyze(h, raw) ==
    LET stats == StatisticalTests_analyze(raw)
        m0 == [h.metrics EXCEPT !.total_samples = @ + 1]
        res == QualityThresholds_check(h.thresholds, stats)
        m1 == IF IsOk(res) THEN analyze_ok(m0, h.required_healthy_streak)
              ELSE analyze_err(m0, res.err)
    IN  [h EXCEPT !.metrics = [m1 EXCEPT !.latest_stats = Some(stats)]]

\* HealthMonitor::allow_reseed
allow_reseed(h) == h.metrics.is_healthy

\* reset that clears the health flag, the streaks and the violation only
HealthMonitor_reset_counters(h) ==
    [h EXCEPT !.metrics.is_healthy = FALSE,
              !.metrics.consecutive_healthy = 0,
              !.metrics.consecutive_unhealthy = 0,
              !.metrics.last_violation = None]

\* HealthMonitor::reset
HealthMonitor_reset(h) == [h EXCEPT !.metrics = HealthMetrics_default]

----------------------------------------------------------------------------
(* conditioning/hash.rs: Conditioner, ConditionedSeed *)

\* A 32-byte array is either explicit bytes (Bytes32) or the digest of a hash,
\* kept as the free term [hash |-> algorithm, input |-> what was hashed].
Bytes32(b) == [i \in 1..32 |-> b]
Digest(algorithm, input) == [hash |-> algorithm, input |-> input]

\* a caller-supplied [u8; 32] of one repeated byte, kept as a term so that it
\* can be compared with a digest
SeedArray(b) == [bytes |-> Bytes32(b)]

\* ConditionedSeed::new_for_testing
ConditionedSeed_new_for_testing(data, entropy_estimate) ==
    [data |-> data, entropy_estimate |-> entropy_estimate]

\* Conditioner::new
Conditioner_new(algorithm) == [algorithm |-> algorithm]

\* the cap on the entropy estimate: the output size in bits
OutputBits == 256

\* the length in bytes of what each hash writes into the seed's [u8; 32]
DigestLen(algorithm) ==
    CASE algorithm = "Blake3" -> 32
      [] algorithm = "Sha256" -> 32

\* condition crediting 8 bits per input byte
condition_bits_per_byte(c, raw) ==
    [data |-> Digest(c.algorithm, raw.data),
     entropy_estimate |-> Min(bit_count(raw), OutputBits)]

\* Conditioner::condition
condition(c, raw) ==
    [data |-> Digest(c.algorithm, raw.data),
     entropy_estimate |-> Min(RawBits_len(raw), OutputBits)]

----------------------------------------------------------------------------
(* conditioning/pool.rs: PoolConfig, EntropyPool *)

\* PoolConfig::default
PoolConfig_default ==
    [min_bits |-> 512, max_bytes |-> 64 * 1024, algorithm |-> "Blake3"]

\* EntropyPool::new
EntropyPool_new(config) ==
    [buffer |-> <<>>,
     config |-> config,
     conditioner |-> Conditioner_new(config.algorithm),
     total_bits_added |-> 0,
     total_extractions |-> 0]

\* EntropyPool::default
EntropyPool_default == EntropyPool_new(PoolConfig_default)

\* is_ready that compares whole bytes against min_bits / 8, rounded down
is_ready_whole_bytes(p) == Len(p.buffer) >= p.config.min_bits \div 8

\* EntropyPool::is_ready
is_ready(p) == Len(p.buffer) * 8 >= p.config.min_bits

\* add that drops a whole buffer that does not fit instead of truncating it
EntropyPool_add_whole_or_nothing(p, raw) ==
    LET space_remaining == saturating_sub(p.config.max_bytes, Len(p.buffer))
    IN  IF RawBits_len(raw) <= space_remaining
        THEN [p EXCEPT !.buffer = @ \o raw.data,
                       !.total_bits_added = @ + RawBits_len(raw) * 8]
        ELSE p

\* add that counts every byte offered, appended or dropped
EntropyPool_add_counts_offered(p, raw) ==
    LET space_remaining == saturating_sub(p.config.max_bytes, Len(p.buffer))
        bytes_to_add == Min(RawBits_len(raw), space_remaining)
    IN  [p EXCEPT !.buffer = @ \o SubSeq(raw.data, 1, bytes_to_add),
                  !.total_bits_added = @ + RawBits_len(raw) * 8]

\* add without the capacity check
EntropyPool_add_unbounded(p, raw) ==
    [p EXCEPT !.buffer = @ \o raw.data,
              !.total_bits_added = @ + RawBits_len(raw) * 8]

\* EntropyPool::add
EntropyPool_add(p, raw) ==
    LET space_remaining == saturating_sub(p.config.max_bytes, Len(p.buffer))
        bytes_to_add == Min(RawBits_len(raw), space_remaining)
    IN  [p EXCEPT !.buffer = @ \o SubSeq(raw.data, 1, bytes_to_add),
                  !.total_bits_added = @ + bytes_to_add * 8]

\* extract without the readiness check
EntropyPool_extract_unchecked(p) ==
    LET raw == RawBits_from_bytes(p.buffer, p.total_extractions)
    IN  [pool |-> [p EXCEPT !.buffer = <<>>,
                            !.total_extractions = @ + 1],
         seed |-> Some(condition(p.conditioner, raw))]

\* extract that conditions whatever is buffered, ready or not
EntropyPool_extract_ungated(p) ==
    IF p.buffer = <<>>
    THEN [pool |-> p, seed |-> None]
    ELSE [pool |-> [p EXCEPT !.buffer = <<>>,
                             !.total_extractions = @ + 1],
          seed |-> Some(condition(p.conditioner,
                                  RawBits_from_bytes(p.buffer, p.total_extractions)))]

\* extract that conditions only as many bytes as min_bits asks for and keeps
\* the rest buffered
EntropyPool_extract_partial(p) ==
    IF ~is_ready(p)
    THEN [pool |-> p, seed |-> None]
    ELSE LET needed == Min(Len(p.buffer), (p.config.min_bits + 7) \div 8)
             raw == RawBits_from_bytes(SubSeq(p.buffer, 1, needed), p.total_extractions)
         IN  [pool |-> [p EXCEPT !.buffer = SubSeq(@, needed + 1, Len(@)),
                                 !.total_extractions = @ + 1],
              seed |-> Some(condition(p.conditioner, raw))]

\* EntropyPool::extract: the pool after the call and the returned Option
EntropyPool_extract(p) ==
    IF ~is_ready(p)
    THEN [pool |-> p, seed |-> None]
    ELSE LET raw == RawBits_from_bytes(p.buffer, p.total_extractions)
             seed == condition(p.conditioner, raw)
         IN  [pool |-> [p EXCEPT !.buffer = <<>>,
                                 !.total_extractions = @ + 1],
              seed |-> Some(seed)]

\* EntropyPool::size_bytes
size_bytes(p) == Len(p.buffer)

\* EntropyPool::clear
EntropyPool_clear(p) == [p EXCEPT !.buffer = <<>>]

----------------------------------------------------------------------------
(* reseeding/csprng.rs: ReseedableRng *)

RESEED_DOMAIN == "optical-entropy-reseed-v1"

RECURSIVE to_le_bytes(_, _)
\* u64::to_le_bytes: the k low-order bytes of n, least significant first
to_le_bytes(n, k) ==
    IF k = 0 THEN <<>> ELSE <<n % 256>> \o to_le_bytes(n \div 256, k - 1)

\* ChaCha20Rng::from_seed: the cipher keyed by the seed, at word position 0
ChaCha20Rng_from_seed(seed) == [key |-> seed, word_pos |-> 0]

\* the output of the cipher for a request of `bytes` bytes, and its state after
\* (the block generator hands out whole 32-bit words)
ChaCha20Rng_output(inner, bytes) ==
    [key |-> inner.key, from_word |-> inner.word_pos, bytes |-> bytes]
ChaCha20Rng_advance(inner, bytes) ==
    [inner EXCEPT !.word_pos = @ + ((bytes + 3) \div 4)]

\* ReseedableRng::from_seed_for_testing; from_os_entropy is the same with the
\* seed drawn from the operating system
ReseedableRng_from_seed(seed) ==
    [inner |-> ChaCha20Rng_from_seed(seed),
     seed_material |-> seed,
     min_entropy_bits |-> 128,
     reseed_count |-> 0,
     bytes_since_reseed |-> 0]

\* ReseedableRng::with_min_entropy
ReseedableRng_with_min_entropy(seed, min_entropy_bits) ==
    [ReseedableRng_from_seed(seed) EXCEPT !.min_entropy_bits = min_entropy_bits]

\* the mix fed the counter after its increment
reseed_mix_post_increment(reseed_count, seed_material, seed_bytes) ==
    Digest("Blake3",
           <<RESEED_DOMAIN, to_le_bytes(reseed_count + 1, 8), seed_material, seed_bytes>>)

\* the mix fed the new entropy alone: no retained material, no counter
reseed_mix_fresh(reseed_count, seed_material, seed_bytes) ==
    Digest("Blake3", <<RESEED_DOMAIN, seed_bytes>>)

\* the BLAKE3 mix of reseed: the hasher is fed four parts of fixed lengths
\* (25, 8, 32 and 32 bytes), so the concatenation determines the parts
reseed_mix(reseed_count, seed_material, seed_bytes) ==
    Digest("Blake3",
           <<RESEED_DOMAIN, to_le_bytes(reseed_count, 8), seed_material, seed_bytes>>)

\* the update that stores the new material but leaves the live cipher keyed
\* as it was
reseed_update_keeps_cipher(g, new_seed_material) ==
    [g EXCEPT !.seed_material = new_seed_material,
              !.reseed_count = @ + 1,
              !.bytes_since_reseed = 0]

\* the state update of a reseed that passed the entropy gate
reseed_update(g, new_seed_material) ==
    [g EXCEPT !.seed_material = new_seed_material,
              !.inner = ChaCha20Rng_from_seed(new_seed_material),
              !.reseed_count = @ + 1,
              !.bytes_since_reseed = 0]

\* the entropy gate comparing with <= in place of <, one bit too lenient
reseed_rejects_lenient(g, seed) == seed.entropy_estimate + 1 < g.min_entropy_bits

\* the entropy gate of reseed: TRUE when the seed is rejected
reseed_rejects(g, seed) == seed.entropy_estimate < g.min_entropy_bits

\* ReseedableRng::reseed: the generator after the call and the Result
ReseedableRng_reseed(g, seed) ==
    IF reseed_rejects(g, seed)
    THEN [rng |-> g,
          result |-> Err([kind |-> "InsufficientEntropy",
                          got |-> seed.entropy_estimate,
                          need |-> g.min_entropy_bits])]
    ELSE [rng |-> reseed_update(g, reseed_mix(g.reseed_count, g.seed_material, seed.data)),
          result |-> Ok]

\* RngCore::next_u32
next_u32(g) ==
    [rng |-> [g EXCEPT !.bytes_since_reseed = @ + 4,
                       !.inner = ChaCha20Rng_advance(@, 4)],
     out |-> ChaCha20Rng_output(g.inner, 4)]

\* next_u64 counting a 32-bit word
next_u64_counts_4(g) ==
    [rng |-> [g EXCEPT !.bytes_since_reseed = @ + 4,
                       !.inner = ChaCha20Rng_advance(@, 8)],
     out |-> ChaCha20Rng_output(g.inner, 8)]

\* RngCore::next_u64
next_u64(g) ==
    [rng |-> [g EXCEPT !.bytes_since_reseed = @ + 8,
                       !.inner = ChaCha20Rng_advance(@, 8)],
     out |-> ChaCha20Rng_output(g.inner, 8)]

\* RngCore::fill_bytes
fill_bytes(g, dest_len) ==
    [rng |-> [g EXCEPT !.bytes_since_reseed = @ + dest_len,
                       !.inner = ChaCha20Rng_advance(@, dest_len)],
     out |-> ChaCha20Rng_output(g.inner, dest_len)]

\* RngCore::try_fill_bytes
try_fill_bytes(g, dest_len) ==
    [rng |-> [g EXCEPT !.bytes_since_reseed = @ + dest_len,
                       !.inner = ChaCha20Rng_advance(@, dest_len)],
     out |-> ChaCha20Rng_output(g.inner, dest_len)]

----------------------------------------------------------------------------
(* capture/frame.rs, extraction/temporal.rs, extraction/spatial.rs,        *)
(* extraction/mod.rs                                                       *)

\* Frame::new (the timestamp takes no part in any decision and is left out)
Frame_new(pixels, width, height, sequence) ==
    [pixels |-> pixels, width |-> width, height |-> height, sequence |-> sequence]

\* TemporalDifferencer::new
TemporalDifferencer_new == [previous |-> None]

\* difference that stores a frame only while it has none: every later call
\* is compared with the priming frame
difference_keeps_first(t, current) ==
    [differencer |-> IF t.previous = None THEN [previous |-> Some(current)] ELSE t,
     result |->
        IF t.previous = None THEN None
        ELSE LET prev == t.previous.some
                 n == Min(Len(current.pixels), Len(prev.pixels))
             IN  Some([i \in 1..n |-> abs_diff(current.pixels[i], prev.pixels[i])])]

\* TemporalDifferencer::difference: the differencer after the call and the Option
difference(t, current) ==
    [differencer |-> [previous |-> Some(current)],
     result |->
        IF t.previous = None THEN None
        ELSE LET prev == t.previous.some
                 n == Min(Len(current.pixels), Len(prev.pixels))
             IN  Some([i \in 1..n |-> abs_diff(current.pixels[i], prev.pixels[i])])]

\* reset that keeps the stored frame
TemporalDifferencer_reset_keeps(t) == t

\* TemporalDifferencer::reset
TemporalDifferencer_reset(t) == [previous |-> None]

\* TemporalDifferencer::is_primed
is_primed(t) == t.previous # None

\* SpatialMixer::new
SpatialMixer_new == [stride |-> 1]

\* SpatialMixer::with_stride
SpatialMixer_with_stride(stride) == [stride |-> Max(stride, 1)]

\* mix that stops at the end of the buffer instead of wrapping around
mix_clamped(m, data) ==
    IF Len(data) = 0 THEN <<>>
    ELSE LET len == Len(data)
         IN  [i \in 1..len |-> BitXor(data[i], data[Min(i + m.stride, len)])]

\* mix that always pairs a byte with its right-hand neighbour
mix_adjacent(m, data) ==
    IF Len(data) = 0 THEN <<>>
    ELSE LET len == Len(data)
         IN  [i \in 1..len |-> BitXor(data[i], data[(i % len) + 1])]

\* SpatialMixer::mix
mix(m, data) ==
    IF Len(data) = 0 THEN <<>>
    ELSE LET len == Len(data)
             stride == m.stride % Max(len, 1)
         IN  [i \in 1..len |->
                BitXor(data[i], data[((i - 1 + stride) % len) + 1])]

\* Extractor::new
Extractor_new == [temporal |-> TemporalDifferencer_new, spatial |-> SpatialMixer_new]

\* process that hands on the difference unmixed and counts one source frame
Extractor_process_unmixed(e, frame) ==
    LET d == difference(e.temporal, frame)
    IN  [extractor |-> [e EXCEPT !.temporal = d.differencer],
         bits |-> IF d.result = None THEN None
                  ELSE Some(RawBits_from_bytes(d.result.some, 1))]

\* Extractor::process: the extractor after the call and the Option<RawBits>
Extractor_process(e, frame) ==
    LET d == difference(e.temporal, frame)
    IN  [extractor |-> [e EXCEPT !.temporal = d.differencer],
         bits |-> IF d.result = None THEN None
                  ELSE Some(RawBits_from_bytes(mix(e.spatial, d.result.some),
                                               frame.sequence))]

\* Extractor::reset
Extractor_reset(e) == [e EXCEPT !.temporal = TemporalDifferencer_reset(@)]

----------------------------------------------------------------------------
(* Values of the components a specification does not exercise *)

\* the seed OsRng hands to from_os_entropy
OsSeed == [os_entropy |-> 0]

IdleHealth == HealthMonitor_default
IdlePool == EntropyPool_default
IdleRng == ReseedableRng_from_seed(OsSeed)
IdleExtractor == Extractor_new
IdleDriver == [mode |-> "none"]

----------------------------------------------------------------------------
(* SpecHealth: one HealthMonitor driven by analyze and reset *)

MaxStreak == 4
MaxHistory == 5

Presets ==
    {QualityThresholds_default, QualityThresholds_conservative,
     QualityThresholds_permissive}

\* buffers handed to analyze: passing every preset; passing all but the
\* conservative one; biased; flat; alternating; empty
HealthSamples ==
    {RawBits_from_bytes(d, 1) :
        d \in {<<15, 15, 15, 240>>, <<15, 240, 240, 15>>, <<0, 0, 0, 0>>,
               <<80, 85, 90, 85>>, <<15, 240>>}}

\* the outcome of the threshold check of a sample, as the monitor sees it
Outcome(h, raw) ==
    IF IsOk(QualityThresholds_check(h.thresholds, StatisticalTests_analyze(raw)))
    THEN "pass" ELSE "fail"

\* the constructor call the monitor was built by, kept in last.built
Built == IF last.op \in {"new", "with_streak_requirement"} THEN last ELSE last.built

InitHealth ==
    /\ \/ \E th \in Presets :
            /\ health = HealthMonitor_new(th)
            /\ last = [op |-> "new"]
       \/ \E th \in Presets, streak \in 0..MaxStreak :
            /\ health = HealthMonitor_with_streak_requirement(th, streak)
            /\ last = [op |-> "with_streak_requirement", streak |-> streak]
    /\ hist = <<>>
    /\ pool = IdlePool
    /\ rng = IdleRng
    /\ rng2 = IdleRng
    /\ extractor = IdleExtractor
    /\ driver = IdleDriver

HealthAnalyze ==
    \E raw \in HealthSamples :
        /\ Len(hist) < MaxHistory
        /\ health' = HealthMonitor_analyze(health, raw)
        /\ hist' = Append(hist, Outcome(health, raw))
        /\ last' = [op |-> "analyze", raw |-> raw, pre |-> health, built |-> Built]
        /\ UNCHANGED <<pool, rng, rng2, extractor, driver>>

HealthReset ==
    /\ Len(hist) < MaxHistory
    /\ health' = HealthMonitor_reset(health)
    /\ hist' = Append(hist, "reset")
    /\ last' = [op |-> "reset", pre |-> health, built |-> Built]
    /\ UNCHANGED <<pool, rng, rng2, extractor, driver>>

NextHealth == HealthAnalyze \/ HealthReset

SpecHealth == InitHealth /\ [][NextHealth]_vars

RECURSIVE TrailingPasses(_)
\* the number of "pass" entries at the end of a history
TrailingPasses(h) ==
    IF h = <<>> \/ h[Len(h)] # "pass" THEN 0
    ELSE 1 + TrailingPasses(SubSeq(h, 1, Len(h) - 1))

----------------------------------------------------------------------------
(* SpecPool: one EntropyPool driven by add, extract and clear; hist counts  *)
(* the bytes that extract and clear have removed from the buffer           *)

MaxPoolBytes == 3
MaxRawLen == 2
MaxPoolAdded == 4
MaxExtractions == 2

\* min_bits values around the byte boundaries, and one above 8 * MaxPoolBytes
PoolMinBits == {0, 8, 9, 24, 8 * MaxPoolBytes + 8}

PoolConfigs ==
    [min_bits : PoolMinBits, max_bytes : 0..MaxPoolBytes,
     algorithm : {"Blake3", "Sha256"}]

RECURSIVE SeqsUpTo(_, _)
\* all sequences over S of length at most n
SeqsUpTo(S, n) ==
    IF n = 0 THEN {<<>>}
    ELSE LET shorter == SeqsUpTo(S, n - 1)
         IN  shorter \cup {Append(q, x) : q \in shorter, x \in S}

PoolInputs == {RawBits_from_bytes(d, 1) : d \in SeqsUpTo({7, 200}, MaxRawLen)}

InitPool ==
    /\ \E config \in PoolConfigs :
            /\ pool = EntropyPool_new(config)
            /\ last = [op |-> "new"]
    /\ hist = [removed |-> 0]
    /\ health = IdleHealth
    /\ rng = IdleRng
    /\ rng2 = IdleRng
    /\ extractor = IdleExtractor
    /\ driver = IdleDriver

PoolAdd ==
    \E raw \in PoolInputs :
        /\ pool.total_bits_added < 8 * MaxPoolAdded
        /\ pool' = EntropyPool_add(pool, raw)
        /\ last' = [op |-> "add", raw |-> raw, pre |-> pool]
        /\ UNCHANGED <<health, rng, rng2, extractor, driver, hist>>

PoolExtract ==
    /\ pool.total_extractions < MaxExtractions
    /\ pool' = EntropyPool_extract(pool).pool
    /\ last' = [op |-> "extract", pre |-> pool, ret |-> EntropyPool_extract(pool).seed]
    /\ hist' = [removed |-> hist.removed + Len(pool.buffer) - Len(pool'.buffer)]
    /\ UNCHANGED <<health, rng, rng2, extractor, driver>>

PoolClear ==
    /\ pool' = EntropyPool_clear(pool)
    /\ last' = [op |-> "clear", pre |-> pool]
    /\ hist' = [removed |-> hist.removed + Len(pool.buffer) - Len(pool'.buffer)]
    /\ UNCHANGED <<health, rng, rng2, extractor, driver>>

NextPool == PoolAdd \/ PoolExtract \/ PoolClear

SpecPool == InitPool /\ [][NextPool]_vars

----------------------------------------------------------------------------
(* SpecPoolFill: one EntropyPool that is handed non-empty buffers again and *)
(* again, with extract calls in between; adding never stops for good       *)

PoolFillAdd ==
    \E raw \in PoolInputs :
        /\ RawBits_len(raw) > 0
        /\ pool.total_bits_added < 8 * MaxPoolAdded
        /\ pool' = EntropyPool_add(pool, raw)
        /\ last' = [op |-> "add", raw |-> raw, pre |-> pool]
        /\ UNCHANGED <<health, rng, rng2, extractor, driver, hist>>

NextPoolFill == PoolFillAdd \/ PoolExtract

SpecPoolFill == InitPool /\ [][NextPoolFill]_vars /\ WF_vars(PoolFillAdd)

----------------------------------------------------------------------------
(* SpecRng: one ReseedableRng driven by reseed and the four output calls *)

MaxReseeds == 2
MaxOutputCalls == 3

\* seeds as the tests build them: two contents, estimates around the minima
SeedContents == {Bytes32(170), Bytes32(0)}
SeedEstimates == {0, 63, 64, 127, 128, 256}
RngSeeds ==
    {ConditionedSeed_new_for_testing(d, e) : d \in SeedContents, e \in SeedEstimates}

\* destination lengths of fill_bytes and try_fill_bytes
FillLens == {0, 1, 32}

InitRng ==
    /\ \/ /\ rng = ReseedableRng_from_seed(OsSeed)
          /\ last = [op |-> "from_os_entropy"]
       \/ /\ rng = ReseedableRng_from_seed(Bytes32(1))
          /\ last = [op |-> "from_seed_for_testing"]
       \/ \E m \in {0, 64, 256} :
            /\ rng = ReseedableRng_with_min_entropy(OsSeed, m)
            /\ last = [op |-> "with_min_entropy"]
    /\ hist = [requested |-> 0, calls |-> 0]
    /\ rng2 = IdleRng
    /\ health = IdleHealth
    /\ pool = IdlePool
    /\ extractor = IdleExtractor
    /\ driver = IdleDriver

\* hist.requested: the bytes requested since the last successful reseed
\* (or since construction); hist.calls: the output calls made so far
RngReseed ==
    \E seed \in RngSeeds :
        /\ rng.reseed_count < MaxReseeds
        /\ rng' = ReseedableRng_reseed(rng, seed).rng
        /\ last' = [op |-> "reseed", seed |-> seed, pre |-> rng,
                    ret |-> ReseedableRng_reseed(rng, seed).result]
        /\ hist' = IF IsOk(ReseedableRng_reseed(rng, seed).result)
                   THEN [hist EXCEPT !.requested = 0] ELSE hist
        /\ UNCHANGED <<rng2, health, pool, extractor, driver>>

RngNextU32 ==
    /\ hist.calls < MaxOutputCalls
    /\ rng' = next_u32(rng).rng
    /\ last' = [op |-> "next_u32", pre |-> rng, ret |-> next_u32(rng).out]
    /\ hist' = [requested |-> hist.requested + 4, calls |-> hist.calls + 1]
    /\ UNCHANGED <<rng2, health, pool, extractor, driver>>

RngNextU64 ==
    /\ hist.calls < MaxOutputCalls
    /\ rng' = next_u64(rng).rng
    /\ last' = [op |-> "next_u64", pre |-> rng, ret |-> next_u64(rng).out]
    /\ hist' = [requested |-> hist.requested + 8, calls |-> hist.calls + 1]
    /\ UNCHANGED <<rng2, health, pool, extractor, driver>>

RngFillBytes ==
    \E n \in FillLens :
        /\ hist.calls < MaxOutputCalls
        /\ rng' = fill_bytes(rng, n).rng
        /\ last' = [op |-> "fill_bytes", pre |-> rng, ret |-> fill_bytes(rng, n).out]
        /\ hist' = [requested |-> hist.requested + n, calls |-> hist.calls + 1]
        /\ UNCHANGED <<rng2, health, pool, extractor, driver>>

RngTryFillBytes ==
    \E n \in FillLens :
        /\ hist.calls < MaxOutputCalls
        /\ rng' = try_fill_bytes(rng, n).rng
        /\ last' = [op |-> "try_fill_bytes", pre |-> rng,
                    ret |-> try_fill_bytes(rng, n).out]
        /\ hist' = [requested |-> hist.requested + n, calls |-> hist.calls + 1]
        /\ UNCHANGED <<rng2, health, pool, extractor, driver>>

NextRng == RngReseed \/ RngNextU32 \/ RngNextU64 \/ RngFillBytes \/ RngTryFillBytes

SpecRng == InitRng /\ [][NextRng]_vars

----------------------------------------------------------------------------
(* SpecRngPair: two ReseedableRng built from the same initial seed *)

MaxPairReseeds == 2
MaxPairFills == 2

PairSeeds == {ConditionedSeed_new_for_testing(d, 256) : d \in SeedContents}

InitRngPair ==
    /\ rng = ReseedableRng_from_seed(SeedArray(1))
    /\ rng2 = ReseedableRng_from_seed(SeedArray(1))
    /\ hist = [applied1 |-> <<>>, applied2 |-> <<>>, calls1 |-> <<>>, calls2 |-> <<>>,
               fills |-> 0]
    /\ last = [op |-> "from_seed_for_testing"]
    /\ health = IdleHealth
    /\ pool = IdlePool
    /\ extractor = IdleExtractor
    /\ driver = IdleDriver

\* hist.applied1, hist.applied2: the seed contents each generator has mixed in;
\* hist.calls1, hist.calls2: every call each generator has served, in order
PairReseed1 ==
    \E seed \in PairSeeds :
        /\ rng.reseed_count < MaxPairReseeds
        /\ rng' = ReseedableRng_reseed(rng, seed).rng
        /\ hist' = [hist EXCEPT !.applied1 = Append(@, seed.data),
                                !.calls1 = Append(@, [reseed |-> seed.data])]
        /\ last' = [op |-> "reseed", which |-> 1, seed |-> seed]
        /\ UNCHANGED <<rng2, health, pool, extractor, driver>>

PairReseed2 ==
    \E seed \in PairSeeds :
        /\ rng2.reseed_count < MaxPairReseeds
        /\ rng2' = ReseedableRng_reseed(rng2, seed).rng
        /\ hist' = [hist EXCEPT !.applied2 = Append(@, seed.data),
                                !.calls2 = Append(@, [reseed |-> seed.data])]
        /\ last' = [op |-> "reseed", which |-> 2, seed |-> seed]
        /\ UNCHANGED <<rng, health, pool, extractor, driver>>

\* both generators serve the same request; hist.fills counts the requests
PairFillBoth ==
    \E n \in FillLens \ {0} :
        /\ hist.fills < MaxPairFills
        /\ rng' = fill_bytes(rng, n).rng
        /\ rng2' = fill_bytes(rng2, n).rng
        /\ hist' = [hist EXCEPT !.fills = @ + 1,
                                !.calls1 = Append(@, [fill_bytes |-> n]),
                                !.calls2 = Append(@, [fill_bytes |-> n])]
        /\ last' = [op |-> "fill_bytes", out1 |-> fill_bytes(rng, n).out,
                    out2 |-> fill_bytes(rng2, n).out]
        /\ UNCHANGED <<health, pool, extractor, driver>>

NextRngPair == PairReseed1 \/ PairReseed2 \/ PairFillBoth

SpecRngPair == InitRngPair /\ [][NextRngPair]_vars

----------------------------------------------------------------------------
(* main.rs: run_pipeline and generate_random, with the camera as environment *)

\* the components a driving loop owns, as one record
Components(h, p, g, e, d) ==
    [health |-> h, pool |-> p, rng |-> g, extractor |-> e, driver |-> d,
     reseed |-> None, analyzed |-> FALSE, added |-> FALSE]

\* the observer's note of one call of reseed: the pool handed to extract,
\* the monitor's verdict at that moment, and the result of the call
ReseedCall(p, h, seed, result) ==
    [pool_bytes |-> Len(p.buffer), min_bits |-> p.config.min_bits,
     healthy |-> allow_reseed(h), estimate |-> seed.entropy_estimate,
     result |-> result]

\* run_pipeline with the health gates left out: every sample is pooled and
\* the pool is drained as soon as it is ready
run_pipeline_sample_ungated(c, bits) ==
    LET h1 == HealthMonitor_analyze(c.health, bits)
        p1 == EntropyPool_add(c.pool, bits)
        ex == EntropyPool_extract(p1)
        c1 == [c EXCEPT !.health = h1, !.analyzed = TRUE, !.added = TRUE,
                        !.driver.healthy_count = @ + 1, !.pool = ex.pool]
    IN  IF ex.seed # None
        THEN LET rs == ReseedableRng_reseed(c.rng, ex.seed.some)
             IN  [c1 EXCEPT !.rng = rs.rng,
                            !.driver.total_reseeds =
                                IF IsOk(rs.result) THEN @ + 1 ELSE @,
                            !.reseed = Some(ReseedCall(p1, h1, ex.seed.some, rs.result))]
        ELSE c1

\* run_pipeline that pools every sample that passed the threshold check,
\* whether or not the streak is met
run_pipeline_sample_pools_passing(c, bits) ==
    LET h1 == HealthMonitor_analyze(c.health, bits)
        c1 == [c EXCEPT !.health = h1, !.analyzed = TRUE]
    IN  IF h1.metrics.last_violation = None
        THEN LET p1 == EntropyPool_add(c.pool, bits)
                 c2 == [c1 EXCEPT !.driver.healthy_count = @ + 1,
                                  !.pool = p1, !.added = TRUE]
             IN  IF allow_reseed(h1) /\ is_ready(p1)
                 THEN LET ex == EntropyPool_extract(p1)
                      IN  IF ex.seed # None
                          THEN LET rs == ReseedableRng_reseed(c.rng, ex.seed.some)
                               IN  [c2 EXCEPT
                                      !.pool = ex.pool,
                                      !.rng = rs.rng,
                                      !.driver.total_reseeds =
                                          IF IsOk(rs.result) THEN @ + 1 ELSE @,
                                      !.reseed = Some(ReseedCall(p1, h1, ex.seed.some,
                                                                 rs.result))]
                          ELSE [c2 EXCEPT !.pool = ex.pool]
                 ELSE c2
        ELSE [c1 EXCEPT !.driver.unhealthy_count = @ + 1]

\* run_pipeline that counts every call of reseed, accepted or rejected
run_pipeline_sample_counts_calls(c, bits) ==
    LET h1 == HealthMonitor_analyze(c.health, bits)
        c1 == [c EXCEPT !.health = h1, !.analyzed = TRUE]
    IN  IF h1.metrics.is_healthy
        THEN LET p1 == EntropyPool_add(c.pool, bits)
                 c2 == [c1 EXCEPT !.driver.healthy_count = @ + 1,
                                  !.pool = p1, !.added = TRUE]
             IN  IF allow_reseed(h1) /\ is_ready(p1)
                 THEN LET ex == EntropyPool_extract(p1)
                      IN  IF ex.seed # None
                          THEN LET rs == ReseedableRng_reseed(c.rng, ex.seed.some)
                               IN  [c2 EXCEPT
                                      !.pool = ex.pool,
                                      !.rng = rs.rng,
                                      !.driver.total_reseeds = @ + 1,
                                      !.reseed = Some(ReseedCall(p1, h1, ex.seed.some,
                                                                 rs.result))]
                          ELSE [c2 EXCEPT !.pool = ex.pool]
                 ELSE c2
        ELSE [c1 EXCEPT !.driver.unhealthy_count = @ + 1]

\* run_pipeline: the body of `if let Some(bits) = extractor.process(&frame)`
run_pipeline_sample(c, bits) ==
    LET h1 == HealthMonitor_analyze(c.health, bits)
        c1 == [c EXCEPT !.health = h1, !.analyzed = TRUE]
    IN  IF h1.metrics.is_healthy
        THEN LET p1 == EntropyPool_add(c.pool, bits)
                 c2 == [c1 EXCEPT !.driver.healthy_count = @ + 1,
                                  !.pool = p1, !.added = TRUE]
             IN  IF allow_reseed(h1) /\ is_ready(p1)
                 THEN LET ex == EntropyPool_extract(p1)
                      IN  IF ex.seed # None
                          THEN LET rs == ReseedableRng_reseed(c.rng, ex.seed.some)
                               IN  [c2 EXCEPT
                                      !.pool = ex.pool,
                                      !.rng = rs.rng,
                                      !.driver.total_reseeds =
                                          IF IsOk(rs.result) THEN @ + 1 ELSE @,
                                      !.reseed = Some(ReseedCall(p1, h1, ex.seed.some,
                                                                 rs.result))]
                          ELSE [c2 EXCEPT !.pool = ex.pool]
                 ELSE c2
        ELSE [c1 EXCEPT !.driver.unhealthy_count = @ + 1]

\* run_pipeline: one pass of the loop body after a successful capture
run_pipeline_frame(c, frame) ==
    LET pr == Extractor_process(c.extractor, frame)
        c1 == [c EXCEPT !.extractor = pr.extractor]
        c2 == IF pr.bits # None THEN run_pipeline_sample(c1, pr.bits.some) ELSE c1
    IN  [c2 EXCEPT !.driver.i = @ + 1]

\* the loop condition without the running flag
run_pipeline_continues_ignores_flag(d) ==
    \/ d.continuous
    \/ ~d.continuous /\ d.i < d.frame_count

\* run_pipeline: the loop condition
run_pipeline_continues(d) ==
    \/ d.continuous /\ d.running
    \/ ~d.continuous /\ d.i < d.frame_count

\* generate_random: the number of passes of its collection loop
GENERATE_PASSES == 50

\* the collection loop pooling every sample, healthy or not
generate_random_sample_pools_all(c, bits) ==
    LET h1 == HealthMonitor_analyze(c.health, bits)
    IN  [c EXCEPT !.health = h1, !.analyzed = TRUE,
                  !.pool = EntropyPool_add(c.pool, bits), !.added = TRUE]

\* generate_random: the body of `if let Some(bits)` in the collection loop
generate_random_sample(c, bits) ==
    LET h1 == HealthMonitor_analyze(c.health, bits)
        c1 == [c EXCEPT !.health = h1, !.analyzed = TRUE]
    IN  IF h1.metrics.is_healthy
        THEN [c1 EXCEPT !.pool = EntropyPool_add(c.pool, bits), !.added = TRUE]
        ELSE c1

\* generate_random: where the loop goes after a pass: out through the break,
\* out at the end of the range, or round again
generate_random_next_pc(c, passes_done) ==
    IF is_ready(c.pool) /\ allow_reseed(c.health) THEN "reseed"
    ELSE IF passes_done >= GENERATE_PASSES THEN "reseed"
    ELSE "loop"

\* generate_random: `if let Some(seed) = pool.extract() { let _ = rng.reseed(&seed); }`
generate_random_reseed(c) ==
    LET ex == EntropyPool_extract(c.pool)
    IN  IF ex.seed # None
        THEN LET rs == ReseedableRng_reseed(c.rng, ex.seed.some)
             IN  [c EXCEPT !.pool = ex.pool, !.rng = rs.rng,
                           !.reseed = Some(ReseedCall(c.pool, c.health, ex.seed.some,
                                                      rs.result))]
        ELSE [c EXCEPT !.pool = ex.pool]

----------------------------------------------------------------------------
(* SpecDriver: run_pipeline or generate_random against a camera that may   *)
(* fail any capture and otherwise delivers one of two pictures             *)

FrameLenSmall == 32
FrameLenLarge == 128
MaxFrames == 5
MaxAttempts == 6
MaxCaptureFailures == 1
MaxStuckFrames == 1

FrameLens == {FrameLenSmall, FrameLenLarge}
FrameKinds == {"dark", "ramp11"}
Cameras == {"live", "stuck", "dead"}
FrameCounts == {1, MaxFrames}

\* the pixels the camera delivers: a dark picture or a ramp
FramePixels(kind, n) ==
    [k \in 1..n |->
        IF kind = "dark" THEN 0 ELSE (11 * (k - 1)) % 256]

\* what the camera can deliver next: a dead camera delivers nothing, a stuck
\* camera repeats the dark picture, a live one repeats its previous picture
\* at most MaxStuckFrames times
NextKinds(d) ==
    IF d.camera = "dead" THEN {}
    ELSE IF d.camera = "stuck" THEN {"dark"}
    ELSE {kind \in FrameKinds :
            d.camera_last = kind => d.stuck_frames < MaxStuckFrames}

\* the camera's side of a successful capture
Delivered(d, kind) ==
    [d EXCEPT !.attempts = @ + 1,
              !.camera_sequence = @ + 1,
              !.stuck_frames = IF d.camera_last = kind /\ d.camera = "live"
                               THEN @ + 1 ELSE @,
              !.camera_last = kind]

\* whether the camera can fail the next capture: a dead camera fails them all
MayFail(d) ==
    \/ d.camera = "dead"
    \/ d.camera = "live" /\ d.failures < MaxCaptureFailures

\* Camera::capture succeeding: the next frame, numbered from 1
CapturedFrame(d, kind) ==
    Frame_new(FramePixels(kind, d.frame_len), d.frame_len, 1, d.camera_sequence + 1)

DriverLocals(mode, pc, frame_count, continuous, frame_len, camera) ==
    [mode |-> mode, pc |-> pc, i |-> 0, frame_count |-> frame_count,
     continuous |-> continuous, running |-> TRUE,
     healthy_count |-> 0, unhealthy_count |-> 0, total_reseeds |-> 0,
     camera |-> camera, camera_sequence |-> 0, camera_last |-> "none",
     frame_len |-> frame_len,
     attempts |-> 0, failures |-> 0, stuck_frames |-> 0, output |-> None]

InitDriver ==
    /\ \E frame_len \in FrameLens, camera \in Cameras :
        \/ \E frame_count \in FrameCounts :
                driver = DriverLocals("run_pipeline", "loop", frame_count, FALSE,
                                      frame_len, camera)
        \/ driver = DriverLocals("run_pipeline", "loop", 0, TRUE, frame_len, camera)
        \/ driver = DriverLocals("generate_random", "loop", 0, FALSE, frame_len, camera)
    /\ extractor = Extractor_new
    /\ pool = EntropyPool_default
    /\ health = HealthMonitor_default
    /\ rng = ReseedableRng_from_seed(OsSeed)
    /\ rng2 = IdleRng
    /\ hist = [outcomes |-> <<>>, healthy |-> 0, pooled |-> <<>>]
    /\ last = [op |-> "start", reseed |-> None, analyzed |-> FALSE, added |-> FALSE]

Now == Components(health, pool, rng, extractor, driver)

\* the observer's history after a step that handed `sample` (an Option) to
\* the monitor: the outcome of each threshold check so far, the number of
\* samples after whose analysis the monitor was healthy, and the bytes of
\* those samples since the latest call of reseed
Observed(c, sample) ==
    LET healthy_now == sample # None /\ allow_reseed(c.health)
    IN  [outcomes |-> IF sample = None THEN hist.outcomes
                      ELSE Append(hist.outcomes, Outcome(health, sample.some)),
         healthy |-> IF healthy_now THEN hist.healthy + 1 ELSE hist.healthy,
         pooled |-> IF c.reseed # None THEN <<>>
                    ELSE IF healthy_now THEN hist.pooled \o sample.some.data
                    ELSE hist.pooled]

\* the components after a step, and the observer's note of it
Becomes(c, op, sample) ==
    /\ health' = c.health
    /\ pool' = c.pool
    /\ rng' = c.rng
    /\ extractor' = c.extractor
    /\ driver' = c.driver
    /\ hist' = Observed(c, sample)
    /\ last' = [op |-> op, reseed |-> c.reseed, analyzed |-> c.analyzed,
                added |-> c.added, pre |-> [rng |-> rng, pool |-> pool]]
    /\ UNCHANGED rng2

InPipelineLoop ==
    /\ driver.mode = "run_pipeline"
    /\ driver.pc = "loop"
    /\ run_pipeline_continues(driver)
    /\ driver.attempts < MaxAttempts

\* camera.capture() fails: warn and `continue`
PipelineCaptureFailed ==
    /\ InPipelineLoop
    /\ MayFail(driver)
    /\ Becomes([Now EXCEPT !.driver.attempts = @ + 1, !.driver.failures = @ + 1],
               "capture_failed", None)

\* camera.capture() succeeds: the rest of the loop body
PipelineFrame ==
    \E kind \in NextKinds(driver) :
        /\ InPipelineLoop
        /\ Becomes(run_pipeline_frame([Now EXCEPT !.driver = Delivered(driver, kind)],
                                      CapturedFrame(driver, kind)),
                   "frame", Extractor_process(extractor, CapturedFrame(driver, kind)).bits)

\* the Ctrl+C handler stores false into the running flag
PipelineCtrlC ==
    /\ driver.mode = "run_pipeline"
    /\ driver.pc = "loop"
    /\ driver.continuous
    /\ driver.running
    /\ Becomes([Now EXCEPT !.driver.running = FALSE], "ctrl_c", None)

\* the loop condition is false: the final sample output
PipelineFinish ==
    /\ driver.mode = "run_pipeline"
    /\ driver.pc = "loop"
    /\ ~run_pipeline_continues(driver)
    /\ Becomes([Now EXCEPT !.rng = fill_bytes(rng, 32).rng,
                           !.driver.output = Some(fill_bytes(rng, 32).out),
                           !.driver.pc = "done"],
               "finish", None)

InGenerateLoop ==
    /\ driver.mode = "generate_random"
    /\ driver.pc = "loop"

\* a pass of the collection loop whose capture fails
GenerateCaptureFailed ==
    /\ InGenerateLoop
    /\ MayFail(driver)
    /\ Becomes([Now EXCEPT !.driver.attempts = @ + 1, !.driver.failures = @ + 1,
                           !.driver.i = @ + 1,
                           !.driver.pc = generate_random_next_pc(Now, driver.i + 1)],
               "capture_failed", None)

\* a pass of the collection loop whose capture succeeds
GenerateFrame ==
    \E kind \in NextKinds(driver) :
        /\ InGenerateLoop
        /\ LET pr == Extractor_process(extractor, CapturedFrame(driver, kind))
               c1 == [Now EXCEPT !.extractor = pr.extractor,
                                 !.driver = [Delivered(driver, kind) EXCEPT !.i = @ + 1]]
               c2 == IF pr.bits # None THEN generate_random_sample(c1, pr.bits.some)
                     ELSE c1
           IN  Becomes([c2 EXCEPT !.driver.pc = generate_random_next_pc(c2, driver.i + 1)],
                       "frame", pr.bits)

\* after the loop: extract, and reseed with what it yields
GenerateReseed ==
    /\ driver.mode = "generate_random"
    /\ driver.pc = "reseed"
    /\ Becomes(generate_random_reseed([Now EXCEPT !.driver.pc = "output"]), "reseed", None)

\* the requested output
GenerateOutput ==
    /\ driver.mode = "generate_random"
    /\ driver.pc = "output"
    /\ Becomes([Now EXCEPT !.rng = fill_bytes(rng, 32).rng,
                           !.driver.output = Some(fill_bytes(rng, 32).out),
                           !.driver.pc = "done"],
               "finish", None)

NextDriver ==
    \/ PipelineCaptureFailed
    \/ PipelineFrame
    \/ PipelineCtrlC
    \/ PipelineFinish
    \/ GenerateCaptureFailed
    \/ GenerateFrame
    \/ GenerateReseed
    \/ GenerateOutput

SpecDriver == InitDriver /\ [][NextDriver]_vars

\* the driving loops with a thread that is not starved: once the loop
\* condition is false the code after the loop runs
SpecDriverFair == InitDriver /\ [][NextDriver]_vars /\ WF_vars(PipelineFinish)

----------------------------------------------------------------------------
(* SpecCondition: one Conditioner conditioning buffers of many lengths *)

MaxConditionLen == 1000
MaxSourceFrames == 7

Algorithms == {"Blake3", "Sha256"}
ConditionLens ==
    {0, 1, 10, OutputBits - 1, OutputBits, OutputBits + 1, MaxConditionLen}
ConditionFills == {"zeros", "ones", "ramp"}

\* a buffer of n bytes: all 0x00, all 0xFF, or (i * 17 + 31) as u8
FilledBuffer(fill, n) ==
    [k \in 1..n |->
        IF fill = "zeros" THEN 0
        ELSE IF fill = "ones" THEN 255
        ELSE (17 * (k - 1) + 31) % 256]

ConditionInputs ==
    {RawBits_from_bytes(FilledBuffer(fill, n), source_frames) :
        fill \in ConditionFills, n \in ConditionLens,
        source_frames \in {0, 1, MaxSourceFrames}}

InitCondition ==
    /\ \E algorithm \in Algorithms :
            last = [op |-> "new", conditioner |-> Conditioner_new(algorithm)]
    /\ hist = <<>>
    /\ health = IdleHealth
    /\ pool = IdlePool
    /\ rng = IdleRng
    /\ rng2 = IdleRng
    /\ extractor = IdleExtractor
    /\ driver = IdleDriver

Condition ==
    \E raw \in ConditionInputs :
        /\ last' = [op |-> "condition", conditioner |-> last.conditioner,
                    raw |-> raw, ret |-> condition(last.conditioner, raw)]
        /\ UNCHANGED <<health, pool, rng, rng2, extractor, driver, hist>>

NextCondition == Condition

SpecCondition == InitCondition /\ [][NextCondition]_vars

----------------------------------------------------------------------------
(* SpecAnalysis: StatisticalTests::analyze and QualityThresholds::check,    *)
(* applied once to a buffer or to statistics around the bounds             *)

MaxConstLen == 64

ConstLens == {0, 1, 2, 3, MaxConstLen}

\* every buffer of one repeated byte value, and two buffers that vary
AnalysisBuffers ==
    {RawBits_from_bytes([k \in 1..n |-> b], 1) : b \in 0..255, n \in ConstLens}
        \cup {RawBits_from_bytes(FilledBuffer("ramp", n), 1) : n \in ConstLens}
        \cup HealthSamples

\* a ratio of two-limb integers
WRatio(num, den) == [num |-> WFromInt(num), den |-> WFromInt(den)]

\* statistics below, on and above each preset's bounds
StatsGrid ==
    [bit_bias : {<<0, 1>>, <<2, 100>>, <<5, 100>>, <<-5, 100>>, <<6, 100>>,
                 <<-6, 100>>, <<2, 10>>, <<-1, 2>>},
     variance : {<<0, 1>>, <<100, 1>>, <<499, 1>>, <<500, 1>>, <<1000, 1>>,
                 <<5000, 1>>},
     autocorrelation : {WRatio(num, 10) : num \in {0, 1, 3, -3, 4, -4, 5, 10, -10}},
     sample_size : {MaxConstLen}]

InitAnalysis ==
    /\ \E th \in Presets : last = [op |-> "thresholds", thresholds |-> th]
    /\ hist = <<>>
    /\ health = IdleHealth
    /\ pool = IdlePool
    /\ rng = IdleRng
    /\ rng2 = IdleRng
    /\ extractor = IdleExtractor
    /\ driver = IdleDriver

\* StatisticalTests::analyze of a buffer, then the threshold check of the result
AnalysisAnalyze ==
    \E raw \in AnalysisBuffers :
        LET stats == StatisticalTests_analyze(raw)
        IN  /\ last.op = "thresholds"
            /\ last' = [op |-> "analyze", thresholds |-> last.thresholds,
                        raw |-> raw, stats |-> stats,
                        ret |-> QualityThresholds_check(last.thresholds, stats)]
            /\ UNCHANGED <<health, pool, rng, rng2, extractor, driver, hist>>

\* the threshold check of statistics supplied by the caller
AnalysisCheck ==
    \E stats \in StatsGrid :
        /\ last.op = "thresholds"
        /\ last' = [op |-> "check", thresholds |-> last.thresholds,
                    raw |-> RawBits_from_bytes(<<>>, 0), stats |-> stats,
                    ret |-> QualityThresholds_check(last.thresholds, stats)]
        /\ UNCHANGED <<health, pool, rng, rng2, extractor, driver, hist>>

NextAnalysis == AnalysisAnalyze \/ AnalysisCheck

SpecAnalysis == InitAnalysis /\ [][NextAnalysis]_vars

----------------------------------------------------------------------------
(* SpecDifferencer: one TemporalDifferencer driven by difference and reset; *)
(* hist keeps the frame of the latest call since the last reset and counts *)
(* the calls                                                               *)

MaxFramePixels == 2
MaxDifferences == 3

\* frames of 0..MaxFramePixels pixels, dark or bright in each
DifferencerPixels == SeqsUpTo({10, 250}, MaxFramePixels)

InitDifferencer ==
    /\ extractor = [Extractor_new EXCEPT !.temporal = TemporalDifferencer_new]
    /\ hist = [latest |-> None, since_reset |-> 0, calls |-> 0]
    /\ last = [op |-> "new"]
    /\ health = IdleHealth
    /\ pool = IdlePool
    /\ rng = IdleRng
    /\ rng2 = IdleRng
    /\ driver = IdleDriver

Difference ==
    \E pixels \in DifferencerPixels :
        LET frame == Frame_new(pixels, Len(pixels), 1, hist.calls + 1)
            d == difference(extractor.temporal, frame)
        IN  /\ hist.calls < MaxDifferences
            /\ extractor' = [extractor EXCEPT !.temporal = d.differencer]
            /\ hist' = [latest |-> Some(frame), since_reset |-> hist.since_reset + 1,
                        calls |-> hist.calls + 1]
            /\ last' = [op |-> "difference", frame |-> frame, ret |-> d.result,
                        preceding |-> hist.latest, since_reset |-> hist.since_reset]
            /\ UNCHANGED <<health, pool, rng, rng2, driver>>

DifferencerReset ==
    /\ extractor' = [extractor EXCEPT !.temporal = TemporalDifferencer_reset(@)]
    /\ hist' = [hist EXCEPT !.latest = None, !.since_reset = 0]
    /\ last' = [op |-> "reset"]
    /\ UNCHANGED <<health, pool, rng, rng2, driver>>

NextDifferencer == Difference \/ DifferencerReset

SpecDifferencer == InitDifferencer /\ [][NextDifferencer]_vars

----------------------------------------------------------------------------
(* SpecMixer: one SpatialMixer of any configured stride mixing buffers *)

MaxStride == 4
MaxMixLen == 3

MixInputs == SeqsUpTo({0, 7, 200}, MaxMixLen)

InitMixer ==
    /\ \/ /\ extractor = [Extractor_new EXCEPT !.spatial = SpatialMixer_new]
          /\ last = [op |-> "new"]
       \/ \E stride \in 0..MaxStride :
            /\ extractor = [Extractor_new EXCEPT !.spatial = SpatialMixer_with_stride(stride)]
            /\ last = [op |-> "with_stride", stride |-> stride]
    /\ hist = <<>>
    /\ health = IdleHealth
    /\ pool = IdlePool
    /\ rng = IdleRng
    /\ rng2 = IdleRng
    /\ driver = IdleDriver

\* last carries the stride the mixer was configured with
Mix ==
    \E data \in MixInputs :
        /\ last' = [op |-> "mix", data |-> data, ret |-> mix(extractor.spatial, data),
                    configured |-> IF last.op = "new" THEN 1
                                   ELSE IF last.op = "with_stride" THEN last.stride
                                   ELSE last.configured]
        /\ UNCHANGED <<health, pool, rng, rng2, extractor, driver, hist>>

NextMixer == Mix

SpecMixer == InitMixer /\ [][NextMixer]_vars

----------------------------------------------------------------------------
(* SpecExtractor: one Extractor driven by process and reset; hist keeps the *)
(* frame of the latest process call since the last reset and counts calls  *)

MaxProcessed == 3
MaxSequence == 9

InitExtractor ==
    /\ extractor = Extractor_new
    /\ hist = [latest |-> None, calls |-> 0]
    /\ last = [op |-> "new"]
    /\ health = IdleHealth
    /\ pool = IdlePool
    /\ rng = IdleRng
    /\ rng2 = IdleRng
    /\ driver = IdleDriver

ExtractorProcess ==
    \E pixels \in DifferencerPixels, sequence \in {hist.calls + 1, MaxSequence} :
        LET frame == Frame_new(pixels, Len(pixels), 1, sequence)
            pr == Extractor_process(extractor, frame)
        IN  /\ hist.calls < MaxProcessed
            /\ extractor' = pr.extractor
            /\ hist' = [latest |-> Some(frame), calls |-> hist.calls + 1]
            /\ last' = [op |-> "process", frame |-> frame, ret |-> pr.bits,
                        preceding |-> hist.latest]
            /\ UNCHANGED <<health, pool, rng, rng2, driver>>

ExtractorReset ==
    /\ extractor' = Extractor_reset(extractor)
    /\ hist' = [hist EXCEPT !.latest = None]
    /\ last' = [op |-> "reset"]
    /\ UNCHANGED <<health, pool, rng, rng2, driver>>

NextExtractor == ExtractorProcess \/ ExtractorReset

SpecExtractor == InitExtractor /\ [][NextExtractor]_vars

----------------------------------------------------------------------------
(* capture/config.rs: CaptureConfig; capture/camera.rs: MockCamera;        *)
(* capture/frame.rs: Frame::pixel_count, Frame::is_valid                   *)

\* CaptureConfig::default (device_id, gain and grayscale are read by no
\* decision of MockCamera and are left out)
CaptureConfig_default ==
    [width |-> 640, height |-> 480, exposure_us |-> 10000, fps |-> 30]

\* CaptureConfig::with_dimensions
CaptureConfig_with_dimensions(width, height) ==
    [CaptureConfig_default EXCEPT !.width = width, !.height = height]

\* validate that looks at the exposure before the dimensions
CaptureConfig_validate_exposure_first(config) ==
    IF config.exposure_us = 0 THEN Err("InvalidExposure")
    ELSE IF config.width = 0 \/ config.height = 0 THEN Err("InvalidDimensions")
    ELSE IF config.fps = 0 \/ config.fps > 120 THEN Err("InvalidFrameRate")
    ELSE Ok

\* CaptureConfig::validate
CaptureConfig_validate(config) ==
    IF config.width = 0 \/ config.height = 0 THEN Err("InvalidDimensions")
    ELSE IF config.exposure_us = 0 THEN Err("InvalidExposure")
    ELSE IF config.fps = 0 \/ config.fps > 120 THEN Err("InvalidFrameRate")
    ELSE Ok

\* a * b on u32 operands below 2^17: whether the product exceeds u32, and the
\* product modulo 2^32 as two 16-bit limbs
u32_mul(a, b) ==
    LET ah == a \div WideBase
        al == a % WideBase
        bh == b \div WideBase
        bl == b % WideBase
        low == al * bl
        mid == ah * bl + al * bh + (low \div WideBase)
    IN  [overflow |-> ah * bh > 0 \/ mid >= WideBase,
         wrapped |-> <<mid % WideBase, low % WideBase>>]

\* (a as usize) * (b as usize) with a 64-bit usize, as a two-limb integer
usize_mul(a, b) ==
    LET ah == a \div WideBase
        al == a % WideBase
        bh == b \div WideBase
        bl == b % WideBase
        low == al * bl
    IN  <<ah * bh * WideBase + ah * bl + al * bh + (low \div WideBase),
          low % WideBase>>

\* Frame::pixel_count
Frame_pixel_count(frame) == usize_mul(frame.width, frame.height)

\* Frame::is_valid
Frame_is_valid(frame) == WFromInt(Len(frame.pixels)) = Frame_pixel_count(frame)

\* MockCamera::new
MockCamera_new == [config |-> None, sequence |-> 0]

\* MockCamera::open
MockCamera_open(c, config) ==
    LET checked == CaptureConfig_validate(config)
    IN  IF IsOk(checked)
        THEN [camera |-> [config |-> Some(config), sequence |-> 0], ret |-> Ok]
        ELSE [camera |-> c, ret |-> Err([kind |-> "ConfigFailed", cause |-> checked.err])]

\* MockCamera::is_open
MockCamera_is_open(c) == IsSome(c.config)

\* MockCamera::close
MockCamera_close(c) == [c EXCEPT !.config = None]

\* the synthetic pixels of MockCamera::capture: ((i ^ sequence) % 256) for i in 0..pixel_count
MockPixels(pixel_count, sequence) ==
    [k \in 1..pixel_count |-> BitXor(k - 1, sequence) % 256]

\* MockCamera::capture. config.width * config.height is a u32 product: where
\* it exceeds u32 a build with overflow checks panics before anything is
\* changed, and a build without them goes on with the product modulo 2^32.
MockCamera_capture(c, overflow_checks) ==
    IF c.config = None
    THEN [camera |-> c, ret |-> Err([kind |-> "NotInitialized"])]
    ELSE LET config == c.config.some
             product == u32_mul(config.width, config.height)
             pixel_count == product.wrapped[1] * WideBase + product.wrapped[2]
         IN  IF product.overflow /\ overflow_checks
             THEN [camera |-> c, ret |-> [panic |-> "attempt to multiply with overflow"]]
             ELSE [camera |-> [c EXCEPT !.sequence = @ + 1],
                   ret |-> [frame |-> Frame_new(MockPixels(pixel_count, c.sequence),
                                                config.width, config.height,
                                                c.sequence + 1)]]

----------------------------------------------------------------------------
(* SpecCamera: one MockCamera driven by open, capture and close. driver     *)
(* holds the camera; hist keeps the build's overflow checking, the number   *)
(* of calls, the captures since the latest successful open and whether a    *)
(* capture has panicked                                                     *)

MaxDimension == 2
MaxCameraCalls == 4

\* the smallest power of two whose square exceeds u32
LargeDimension == WideBase

\* configurations: every pair of small dimensions, the large square, and the
\* exposure and frame rates on both sides of validate's bounds
CameraConfigs ==
    {CaptureConfig_with_dimensions(w, h) : w \in 0..MaxDimension, h \in 0..MaxDimension}
        \cup {CaptureConfig_with_dimensions(LargeDimension, LargeDimension)}
        \cup {[CaptureConfig_with_dimensions(1, 1) EXCEPT !.exposure_us = 0]}
        \cup {[CaptureConfig_with_dimensions(1, 1) EXCEPT !.fps = f] : f \in {0, 1, 120, 121}}

InitCamera ==
    /\ driver = MockCamera_new
    /\ \E overflow_checks \in BOOLEAN :
          hist = [overflow_checks |-> overflow_checks, calls |-> 0,
                  captures |-> 0, panicked |-> FALSE]
    /\ last = [op |-> "new"]
    /\ health = IdleHealth
    /\ pool = IdlePool
    /\ rng = IdleRng
    /\ rng2 = IdleRng
    /\ extractor = IdleExtractor

CameraOpen ==
    \E config \in CameraConfigs :
        LET opened == MockCamera_open(driver, config)
        IN  /\ hist.calls < MaxCameraCalls
            /\ ~hist.panicked
            /\ driver' = opened.camera
            /\ hist' = [hist EXCEPT !.calls = @ + 1,
                                    !.captures = IF IsOk(opened.ret) THEN 0 ELSE @]
            /\ last' = [op |-> "open", config |-> config, ret |-> opened.ret,
                        pre |-> driver]
            /\ UNCHANGED <<health, pool, rng, rng2, extractor>>

CameraCapture ==
    LET captured == MockCamera_capture(driver, hist.overflow_checks)
    IN  /\ hist.calls < MaxCameraCalls
        /\ ~hist.panicked
        /\ driver' = captured.camera
        /\ hist' = [hist EXCEPT !.calls = @ + 1,
                                !.captures = IF "frame" \in DOMAIN captured.ret
                                             THEN @ + 1 ELSE @,
                                !.panicked = "panic" \in DOMAIN captured.ret]
        /\ last' = [op |-> "capture", ret |-> captured.ret, pre |-> driver]
        /\ UNCHANGED <<health, pool, rng, rng2, extractor>>

CameraClose ==
    /\ hist.calls < MaxCameraCalls
    /\ ~hist.panicked
    /\ driver' = MockCamera_close(driver)
    /\ hist' = [hist EXCEPT !.calls = @ + 1]
    /\ last' = [op |-> "close", pre |-> driver]
    /\ UNCHANGED <<health, pool, rng, rng2, extractor>>

NextCamera == CameraOpen \/ CameraCapture \/ CameraClose

SpecCamera == InitCamera /\ [][NextCamera]_vars

----------------------------------------------------------------------------
(* SpecValidate: CaptureConfig::validate applied once to a configuration   *)
(* with each field below, on and above its bounds                          *)

MaxFps == 200

ValidateConfigs ==
    [width : {0, 1, 640}, height : {0, 1, 480}, exposure_us : {0, 1, 10000},
     fps : {0, 1, 30, 119, 120, 121, MaxFps}]

InitValidate ==
    /\ last = [op |-> "start"]
    /\ hist = <<>>
    /\ health = IdleHealth
    /\ pool = IdlePool
    /\ rng = IdleRng
    /\ rng2 = IdleRng
    /\ extractor = IdleExtractor
    /\ driver = IdleDriver

Validate ==
    \E config \in ValidateConfigs :
        /\ last.op = "start"
        /\ last' = [op |-> "validate", config |-> config,
                    ret |-> CaptureConfig_validate(config)]
        /\ UNCHANGED <<health, pool, rng, rng2, extractor, driver, hist>>

NextValidate == Validate

SpecValidate == InitValidate /\ [][NextValidate]_vars

----------------------------------------------------------------------------
(* Properties of the health monitor (SpecHealth) *)

\* C1: fail-closed start. A monitor freshly built by new() or
\* with_streak_requirement(), for any thresholds and any streak value, does
\* not allow reseeding, has both consecutive counters and total_samples at 0,
\* and has neither a last violation nor latest statistics.
C1_FailClosedStart ==
    hist = <<>> =>
        /\ ~allow_reseed(health)
        /\ health.metrics.consecutive_healthy = 0
        /\ health.metrics.consecutive_unhealthy = 0
        /\ health.metrics.total_samples = 0
        /\ health.metrics.last_violation = None
        /\ health.metrics.latest_stats = None

C1_Witness ==
    /\ hist = <<>>
    /\ last.op = "with_streak_requirement"
    /\ last.streak = 0
    /\ health.thresholds = QualityThresholds_permissive

\* C2: slow recovery. With streak requirement N >= 1, reseeding is allowed
\* exactly when the last N or more analyze calls all passed: from an unhealthy
\* monitor with no streak (initially, after reset, after a failing call) the
\* first N-1 passing calls leave allow_reseed() false, the N-th makes it true,
\* and a failing call restarts the count.
C2_SlowRecovery ==
    /\ health.required_healthy_streak >= 1
    /\ allow_reseed(health) <=> TrailingPasses(hist) >= health.required_healthy_streak

C2_Witness ==
    /\ hist = <<"pass", "fail", "pass", "pass", "pass">>
    /\ health.required_healthy_streak = 3
    /\ allow_reseed(health)

\* C3: instant degradation. One analyze call whose threshold check fails, made
\* while reseeding is allowed, leaves allow_reseed() false and
\* consecutive_healthy at 0, however long the healthy streak was.
C3_InstantDegradation ==
    (/\ last.op = "analyze"
     /\ allow_reseed(last.pre)
     /\ hist[Len(hist)] = "fail")
    => /\ ~allow_reseed(health)
       /\ health.metrics.consecutive_healthy = 0

C3_Witness ==
    /\ last.op = "analyze"
    /\ allow_reseed(last.pre)
    /\ hist[Len(hist)] = "fail"
    /\ last.pre.metrics.consecutive_healthy > last.pre.required_healthy_streak
    /\ ~allow_reseed(health)

----------------------------------------------------------------------------
(* Properties of the driving loops (SpecDriver) *)

\* C4: in run_pipeline and generate_random, whenever ReseedableRng::reseed is
\* invoked, the monitor allowed reseeding for the sample analyzed last and the
\* pool was ready; no order of capture successes and failures and of passing
\* and failing samples reseeds while the monitor is unhealthy.
C4_ReseedOnlyWhenAllowed ==
    last.reseed # None =>
        /\ last.reseed.some.healthy
        /\ 8 * last.reseed.some.pool_bytes >= last.reseed.some.min_bits
        /\ allow_reseed(health)

\* run_pipeline reseeds after a capture failure and a failing sample
C4_Witness ==
    /\ driver.mode = "run_pipeline"
    /\ last.reseed # None
    /\ driver.failures > 0
    /\ driver.unhealthy_count > 0

----------------------------------------------------------------------------
(* Properties of the reseedable generator (SpecRng, SpecRngPair) *)

\* C5: a reseed whose seed has an entropy estimate below min_entropy_bits
\* returns InsufficientEntropy{got = estimate, need = minimum} and leaves
\* reseed_count, the retained seed material, the live cipher state (so every
\* later output) and bytes_since_reseed as they were; an estimate equal to
\* the minimum is accepted.
C5_RejectedReseedChangesNothing ==
    last.op = "reseed" =>
        IF last.seed.entropy_estimate < last.pre.min_entropy_bits
        THEN /\ last.ret = Err([kind |-> "InsufficientEntropy",
                                got |-> last.seed.entropy_estimate,
                                need |-> last.pre.min_entropy_bits])
             /\ rng.reseed_count = last.pre.reseed_count
             /\ rng.seed_material = last.pre.seed_material
             /\ rng.inner = last.pre.inner
             /\ rng.bytes_since_reseed = last.pre.bytes_since_reseed
             /\ \A n \in FillLens : fill_bytes(rng, n).out = fill_bytes(last.pre, n).out
        ELSE last.ret = Ok

C5_Witness ==
    /\ last.op = "reseed"
    /\ last.seed.entropy_estimate < last.pre.min_entropy_bits
    /\ last.pre.reseed_count > 0
    /\ last.pre.bytes_since_reseed > 0
    /\ rng = last.pre

\* the 8 little-endian bytes of a counter below 65536
CounterBytes(c) ==
    [i \in 1..8 |-> IF i = 1 THEN c % 256 ELSE IF i = 2 THEN c \div 256 ELSE 0]

\* C6: a successful reseed sets the retained seed material to
\* Hash(domain tag || reseed_count before the call as 8 little-endian bytes ||
\* old retained material || the seed's 32 bytes), re-initialises the live
\* cipher from that material, adds exactly 1 to reseed_count and zeroes
\* bytes_since_reseed.
C6_SuccessfulReseed ==
    (last.op = "reseed" /\ last.ret = Ok) =>
        /\ rng.seed_material =
              [hash |-> "Blake3",
               input |-> <<"optical-entropy-reseed-v1",
                           CounterBytes(last.pre.reseed_count),
                           last.pre.seed_material,
                           last.seed.data>>]
        /\ rng.inner = [key |-> rng.seed_material, word_pos |-> 0]
        /\ rng.reseed_count = last.pre.reseed_count + 1
        /\ rng.bytes_since_reseed = 0

C6_Witness ==
    /\ last.op = "reseed"
    /\ last.ret = Ok
    /\ last.pre.reseed_count = 1
    /\ last.pre.bytes_since_reseed > 0
    /\ last.pre.inner.word_pos > 0

\* C7: counter binding. Two generators built from the same initial seed whose
\* last mixed-in seed bytes are the same but whose reseed counters differ hold
\* different retained material and different cipher keys, so the outputs they
\* give for the same request after the reseed differ.
C7_CounterBinding ==
    (/\ hist.applied1 # <<>>
     /\ hist.applied2 # <<>>
     /\ hist.applied1[Len(hist.applied1)] = hist.applied2[Len(hist.applied2)]
     /\ rng.reseed_count # rng2.reseed_count)
    => /\ rng.seed_material # rng2.seed_material
       /\ rng.inner.key # rng2.inner.key
       /\ last.op = "fill_bytes" => last.out1 # last.out2

C7_Witness ==
    /\ hist.applied1 = <<Bytes32(170)>>
    /\ hist.applied2 = <<Bytes32(0), Bytes32(170)>>
    /\ rng.reseed_count = 1
    /\ rng2.reseed_count = 2
    /\ last.op = "fill_bytes"

\* C8: bytes_since_reseed equals the number of bytes requested since the last
\* successful reseed (or since construction): next_u32 adds 4, next_u64 adds
\* 8, fill_bytes and try_fill_bytes add the destination length, a successful
\* reseed resets it to 0 and a rejected reseed leaves it alone.
C8_BytesSinceReseed == rng.bytes_since_reseed = hist.requested

C8_Witness ==
    /\ last.op = "next_u64"
    /\ rng.reseed_count > 0
    /\ hist.requested > 8
    /\ rng.bytes_since_reseed = hist.requested

\* C24: two generators built from the same initial seed and driven by the
\* same sequence of output requests and reseeds emit identical output; once
\* only one of them has had one more successful reseed their outputs differ;
\* and when the latest reseed of each mixed in different seed bytes their
\* outputs differ (the mixing hash taken as collision-free).
C24_SameHistorySameOutput ==
    last.op = "fill_bytes" =>
        LET a1 == hist.applied1
            a2 == hist.applied2
        IN  /\ hist.calls1 = hist.calls2 => last.out1 = last.out2
            /\ (Len(a2) = Len(a1) + 1 /\ SubSeq(a2, 1, Len(a1)) = a1)
                  => last.out1 # last.out2
            /\ (Len(a1) = Len(a2) + 1 /\ SubSeq(a1, 1, Len(a2)) = a2)
                  => last.out1 # last.out2
            /\ (a1 # <<>> /\ a2 # <<>> /\ a1[Len(a1)] # a2[Len(a2)])
                  => last.out1 # last.out2

\* a common request, a common reseed and a second common request
C24_Witness ==
    /\ last.op = "fill_bytes"
    /\ hist.fills = 2
    /\ hist.calls1 = hist.calls2
    /\ hist.applied1 = <<Bytes32(170)>>
    /\ rng.bytes_since_reseed = 1
    /\ last.out1 = last.out2

----------------------------------------------------------------------------
(* Properties of the entropy pool (SpecPool) *)

\* C9: pool capacity. After any sequence of add, extract and clear,
\* size_bytes() <= max_bytes; add appends exactly the first
\* min(len(raw), max_bytes - size_bytes()) bytes of its input, in order, and
\* drops the rest.
C9_PoolCapacity ==
    /\ size_bytes(pool) <= pool.config.max_bytes
    /\ last.op = "add" =>
          LET room == pool.config.max_bytes - Len(last.pre.buffer)
              taken == IF Len(last.raw.data) <= room THEN Len(last.raw.data) ELSE room
          IN  /\ Len(pool.buffer) = Len(last.pre.buffer) + taken
              /\ \A i \in 1..Len(last.pre.buffer) : pool.buffer[i] = last.pre.buffer[i]
              /\ \A i \in 1..taken :
                    pool.buffer[Len(last.pre.buffer) + i] = last.raw.data[i]

C9_Witness ==
    /\ last.op = "add"
    /\ Len(last.pre.buffer) > 0
    /\ Len(last.pre.buffer) < pool.config.max_bytes
    /\ Len(last.raw.data) > pool.config.max_bytes - Len(last.pre.buffer)
    /\ size_bytes(pool) = pool.config.max_bytes

\* C10: extract() on a pool that is not ready returns nothing and leaves the
\* buffer contents, total_bits_added and total_extractions unchanged.
C10_ExtractNotReady ==
    (last.op = "extract" /\ 8 * Len(last.pre.buffer) < last.pre.config.min_bits)
    => /\ last.ret = None
       /\ pool.buffer = last.pre.buffer
       /\ pool.total_bits_added = last.pre.total_bits_added
       /\ pool.total_extractions = last.pre.total_extractions

C10_Witness ==
    /\ last.op = "extract"
    /\ 8 * Len(last.pre.buffer) < last.pre.config.min_bits
    /\ Len(last.pre.buffer) > 0
    /\ last.pre.total_extractions > 0
    /\ last.ret = None

\* C11 as stated: for every pool configuration a successful extract()
\* conditions the whole buffer in insertion order, adds exactly 1 to
\* total_extractions, leaves total_bits_added alone, and afterwards
\* size_bytes() = 0 and is_ready() is false.
C11_AsStated ==
    (last.op = "extract" /\ last.ret # None) =>
        /\ last.ret.some.data = Digest(last.pre.config.algorithm, last.pre.buffer)
        /\ pool.total_extractions = last.pre.total_extractions + 1
        /\ pool.total_bits_added = last.pre.total_bits_added
        /\ size_bytes(pool) = 0
        /\ ~is_ready(pool)

\* C11 (amended): a successful extract() conditions the whole buffer in
\* insertion order, adds exactly 1 to total_extractions, leaves
\* total_bits_added alone, and afterwards size_bytes() = 0; is_ready() is
\* false afterwards exactly when min_bits > 0 (an empty pool is ready when
\* min_bits = 0).
C11_SuccessfulExtract ==
    (last.op = "extract" /\ last.ret # None) =>
        /\ last.ret.some.data = Digest(last.pre.config.algorithm, last.pre.buffer)
        /\ pool.total_extractions = last.pre.total_extractions + 1
        /\ pool.total_bits_added = last.pre.total_bits_added
        /\ size_bytes(pool) = 0
        /\ ~is_ready(pool) <=> pool.config.min_bits > 0

\* a second extraction, of more bytes than min_bits asks for
C11_Witness ==
    /\ last.op = "extract"
    /\ last.ret # None
    /\ last.pre.total_extractions > 0
    /\ pool.config.min_bits > 0
    /\ 8 * Len(last.pre.buffer) >= pool.config.min_bits + 8

\* C12: is_ready() is true exactly when 8 * size_bytes() >= min_bits: extract
\* yields a seed exactly from such a pool, adds that keep the stored bits
\* below min_bits keep the pool not ready, and the pool becomes ready at the
\* add that brings the stored size to the threshold.
C12_ReadyThreshold ==
    /\ is_ready(pool) <=> 8 * size_bytes(pool) >= pool.config.min_bits
    /\ last.op = "extract" =>
          (last.ret # None <=> 8 * Len(last.pre.buffer) >= last.pre.config.min_bits)
    /\ last.op = "add" =>
          LET room == pool.config.max_bytes - Len(last.pre.buffer)
              taken == IF Len(last.raw.data) <= room THEN Len(last.raw.data) ELSE room
              stored == Len(last.pre.buffer) + taken
          IN  (is_ready(pool) /\ ~is_ready(last.pre))
                <=> (/\ 8 * Len(last.pre.buffer) < pool.config.min_bits
                     /\ 8 * stored >= pool.config.min_bits)

\* the second add of one byte makes a pool with min_bits = 9 ready
C12_Witness ==
    /\ last.op = "add"
    /\ pool.config.min_bits = 9
    /\ Len(last.pre.buffer) = 1
    /\ size_bytes(pool) = 2
    /\ is_ready(pool)
    /\ ~is_ready(last.pre)

----------------------------------------------------------------------------
(* The pool feeding the generator (SpecDriver) *)

\* C13: with the default PoolConfig (min_bits 512) and the default generator
\* minimum (128 bits), every seed extract() returns from a ready pool has an
\* entropy estimate that reseed() accepts.
C13_ReadyPoolSeedAccepted ==
    (last.reseed # None /\ last.reseed.some.min_bits = PoolConfig_default.min_bits)
        => IsOk(last.reseed.some.result)

----------------------------------------------------------------------------
(* Properties of the conditioner (SpecCondition) *)

\* C14: the conditioner's entropy estimate is exactly min(input byte count,
\* 256) for every input and either hash algorithm, whatever the input's
\* content and provenance tag, and the seed is the configured hash of the
\* whole input, always exactly 32 bytes.
C14_EntropyEstimate ==
    last.op = "condition" =>
        LET n == Len(last.raw.data)
        IN  /\ last.ret.entropy_estimate = (IF n <= 256 THEN n ELSE 256)
            /\ last.ret.data.hash = last.conditioner.algorithm
            /\ last.ret.data.input = last.raw.data
            /\ DigestLen(last.ret.data.hash) = 32

\* a 1000-byte input under SHA-256, capped at 256
C14_Witness ==
    /\ last.op = "condition"
    /\ last.conditioner.algorithm = "Sha256"
    /\ Len(last.raw.data) > 256
    /\ last.raw.source_frames > 1
    /\ last.ret.entropy_estimate = 256

----------------------------------------------------------------------------
(* Properties of the statistics and the threshold check (SpecAnalysis) *)

\* the kind of outcome a check returned
OutcomeKind(ret) == IF IsOk(ret) THEN "Ok" ELSE ret.err.kind

\* whether every byte of a buffer equals the first
AllBytesIdentical(data) == \A k \in 1..Len(data) : data[k] = data[1]

C16_ConstantBufferLowVariance ==
    (/\ last.op = "analyze"
     /\ last.thresholds = QualityThresholds_default
     /\ Len(last.raw.data) >= 1
     /\ AllBytesIdentical(last.raw.data))
        => OutcomeKind(last.ret) = "LowVariance"

\* C17 as stated: for every buffer whose bytes are all identical, of any
\* length, analyze reports variance 0 and lag-1 autocorrelation 1.0.
C17_AsStated ==
    (/\ last.op = "analyze"
     /\ Len(last.raw.data) >= 1
     /\ AllBytesIdentical(last.raw.data))
        => /\ last.stats.variance[1] = 0
           /\ last.stats.autocorrelation.num = last.stats.autocorrelation.den

\* C17 (amended): for every buffer of at least 2 bytes whose bytes are all
\* identical, analyze reports variance 0 and lag-1 autocorrelation 1.0; a
\* buffer of fewer than 2 bytes gets variance 0 and autocorrelation 0.0.
C17_ConstantBufferStatistics ==
    (last.op = "analyze" /\ AllBytesIdentical(last.raw.data)) =>
        /\ last.stats.variance[1] = 0
        /\ last.stats.variance[2] > 0
        /\ ~WIsZero(last.stats.autocorrelation.den)
        /\ IF Len(last.raw.data) >= 2
           THEN last.stats.autocorrelation.num = last.stats.autocorrelation.den
           ELSE WIsZero(last.stats.autocorrelation.num)

\* a long buffer of one repeated non-zero byte
C17_Witness ==
    /\ last.op = "analyze"
    /\ Len(last.raw.data) = MaxConstLen
    /\ AllBytesIdentical(last.raw.data)
    /\ last.raw.data[1] = 128
    /\ last.stats.autocorrelation.num = last.stats.autocorrelation.den

----------------------------------------------------------------------------
(* Properties of the temporal differencer (SpecDifferencer) *)

\* C18: differencer priming. The first difference() call after construction
\* or after reset() returns nothing and leaves is_primed() true; every later
\* call until the next reset() returns a buffer; reset() makes is_primed()
\* false, as it is after construction.
C18_Priming ==
    /\ last.op = "new" => ~is_primed(extractor.temporal)
    /\ last.op = "reset" => ~is_primed(extractor.temporal)
    /\ last.op = "difference" =>
          /\ is_primed(extractor.temporal)
          /\ last.ret = None <=> last.since_reset = 0

\* a priming call that follows a reset of a primed differencer
C18_Witness ==
    /\ last.op = "difference"
    /\ last.since_reset = 0
    /\ hist.calls >= 2
    /\ last.ret = None

\* C19: each non-priming difference() call returns, element by element, the
\* unsigned absolute difference between the current frame and the frame of
\* the call just before it (never an older one), over the pixels both frames
\* have, and then holds the current frame as the new previous; identical
\* consecutive frames give all zeros.
C19_DifferenceOfConsecutiveFrames ==
    (last.op = "difference" /\ last.since_reset > 0) =>
        LET cur == last.frame.pixels
            prev == last.preceding.some.pixels
            n == IF Len(cur) <= Len(prev) THEN Len(cur) ELSE Len(prev)
        IN  /\ last.ret # None
            /\ Len(last.ret.some) = n
            /\ \A i \in 1..n :
                  last.ret.some[i] =
                      (IF cur[i] >= prev[i] THEN cur[i] - prev[i] ELSE prev[i] - cur[i])
            /\ cur = prev => \A i \in 1..n : last.ret.some[i] = 0
            /\ extractor.temporal.previous = Some(last.frame)

\* the third call in a row differs from the second, whose frame differed from
\* the first
C19_Witness ==
    /\ last.op = "difference"
    /\ last.since_reset = 2
    /\ Len(last.frame.pixels) = MaxFramePixels
    /\ Len(last.preceding.some.pixels) = MaxFramePixels
    /\ last.ret.some[1] = 240
    /\ last.ret.some[2] = 0

----------------------------------------------------------------------------
(* Properties of the spatial mixer (SpecMixer) *)

\* C20: for every buffer and configured stride s (a configured 0 counts as 1),
\* mix returns a buffer of the same length with
\* output[i] = input[i] XOR input[(i + (s mod len)) mod len]; the empty buffer
\* maps to the empty buffer, and a buffer whose bytes are all equal maps to
\* all zeros.
C20_Mix ==
    last.op = "mix" =>
        LET s == IF last.configured = 0 THEN 1 ELSE last.configured
            len == Len(last.data)
        IN  /\ Len(last.ret) = len
            /\ len = 0 => last.ret = <<>>
            /\ \A i \in 0..(len - 1) :
                  last.ret[i + 1] =
                      BitXor(last.data[i + 1], last.data[((i + (s % len)) % len) + 1])
            /\ AllBytesIdentical(last.data) => \A i \in 1..len : last.ret[i] = 0

\* stride 2 on three different bytes: 0 ^ 200, 7 ^ 0, 200 ^ 7
C20_Witness ==
    /\ last.op = "mix"
    /\ last.configured = 2
    /\ last.data = <<0, 7, 200>>
    /\ last.ret = <<200, 7, 207>>

----------------------------------------------------------------------------
(* Properties of the extractor (SpecExtractor) *)

\* C21: Extractor.process returns nothing exactly when its differencer was
\* unprimed at the call (the first frame, or the first frame after reset()),
\* and otherwise returns RawBits whose data is the stride-1 mix of the
\* difference against the preceding frame and whose provenance tag is the
\* sequence number of the frame just processed.
C21_Process ==
    last.op = "process" =>
        /\ last.ret = None <=> last.preceding = None
        /\ last.preceding # None =>
              LET cur == last.frame.pixels
                  prev == last.preceding.some.pixels
                  n == IF Len(cur) <= Len(prev) THEN Len(cur) ELSE Len(prev)
                  diff == [i \in 1..n |->
                             IF cur[i] >= prev[i] THEN cur[i] - prev[i]
                             ELSE prev[i] - cur[i]]
              IN  /\ Len(last.ret.some.data) = n
                  /\ \A i \in 1..n :
                        last.ret.some.data[i] = BitXor(diff[i], diff[(i % n) + 1])
                  /\ last.ret.some.source_frames = last.frame.sequence

\* a frame numbered MaxSequence whose difference is <<240, 0>>, mixed to
\* <<240, 240>>
C21_Witness ==
    /\ last.op = "process"
    /\ last.preceding # None
    /\ last.frame.sequence = MaxSequence
    /\ last.ret # None
    /\ Len(last.ret.some.data) >= 2
    /\ last.ret.some.data[1] = 240
    /\ last.frame.pixels[2] = last.preceding.some.pixels[2]

----------------------------------------------------------------------------
(* Properties of the driving loop's cycle (SpecDriver) *)

\* C22: in the driving loop, every RawBits the extractor produces is consumed
\* in that cycle by both the Health Monitor (analyze) and the Entropy Pool
\* (add).
C22_SampleAnalyzedAndPooled ==
    (last.op = "frame" /\ driver.camera_sequence >= 2)
        => (last.analyzed /\ last.added)

\* C23: on a capture error the driver skips that cycle and never retries: in
\* non-continuous mode run_pipeline makes at most frame_count capture
\* attempts, whatever the pattern of capture successes and failures.
C23_AtMostFrameCountAttempts ==
    (driver.mode = "run_pipeline" /\ ~driver.continuous)
        => driver.attempts <= driver.frame_count

----------------------------------------------------------------------------
(* Properties of RawBits::bit_bias (SpecAnalysis) *)

\* every byte of the buffer has the given value
AllBytesAre(data, b) == \A k \in 1..Len(data) : data[k] = b

\* C25: for every byte buffer, bit_bias = popcount / (8 * length) - 0.5 and
\* lies in [-0.5, 0.5]; it is 0.5 for a buffer of 0xFF bytes, -0.5 for a
\* buffer of 0x00 bytes, 0 for a buffer of 0xAA bytes, and 0 for the empty
\* buffer.
C25_BitBias ==
    last.op = "analyze" =>
        LET bias == last.stats.bit_bias
            data == last.raw.data
        IN  /\ bias[2] > 0
            /\ -bias[2] <= 2 * bias[1]
            /\ 2 * bias[1] <= bias[2]
            /\ data = <<>> => bias[1] = 0
            /\ data # <<>> =>
                  /\ (2 * bias[1] + bias[2]) * 8 * Len(data)
                        = 2 * bias[2] * popcount(last.raw)
                  /\ AllBytesAre(data, 255) => 2 * bias[1] = bias[2]
                  /\ AllBytesAre(data, 0) => 2 * bias[1] = -bias[2]
                  /\ AllBytesAre(data, 170) => bias[1] = 0

\* the longest buffer of 0xFF bytes: the bias is exactly one half
C25_Witness ==
    /\ last.op = "analyze"
    /\ Len(last.raw.data) = MaxConstLen
    /\ AllBytesAre(last.raw.data, 255)
    /\ 2 * last.stats.bit_bias[1] = last.stats.bit_bias[2]

----------------------------------------------------------------------------
(* Properties of the health monitor's counters and reset (SpecHealth) *)

\* C26: reset() on a monitor in any reachable state restores the metrics
\* exactly to their initial default (unhealthy, both streaks and total_samples
\* 0, no violation, no statistics) and leaves the thresholds and the required
\* streak unchanged.
C26_ResetRestoresDefault ==
    last.op = "reset" =>
        /\ health.metrics = [latest_stats |-> None,
                             is_healthy |-> FALSE,
                             last_violation |-> None,
                             consecutive_healthy |-> 0,
                             consecutive_unhealthy |-> 0,
                             total_samples |-> 0]
        /\ health.thresholds = last.pre.thresholds
        /\ health.required_healthy_streak = last.pre.required_healthy_streak

\* reset of a healthy monitor with non-default thresholds and streak
C26_Witness ==
    /\ last.op = "reset"
    /\ last.pre.metrics.is_healthy
    /\ last.pre.metrics.total_samples >= 2
    /\ last.pre.thresholds = QualityThresholds_permissive
    /\ last.pre.required_healthy_streak = 2
    /\ health.metrics.total_samples = 0
    /\ health.required_healthy_streak = 2

\* C28: in every reachable state the monitor is healthy exactly when
\* consecutive_healthy >= required_healthy_streak; a passing sample never
\* makes a healthy monitor unhealthy; the monitor is never healthy with
\* consecutive_healthy = 0.
C28_Hysteresis ==
    /\ health.metrics.is_healthy
          <=> health.metrics.consecutive_healthy >= health.required_healthy_streak
    /\ (/\ last.op = "analyze"
        /\ last.pre.metrics.is_healthy
        /\ hist[Len(hist)] = "pass") => health.metrics.is_healthy
    /\ ~(health.metrics.is_healthy /\ health.metrics.consecutive_healthy = 0)

\* a passing sample on a healthy monitor, after an earlier failure
C28_Witness ==
    /\ last.op = "analyze"
    /\ last.pre.metrics.is_healthy
    /\ hist[Len(hist)] = "pass"
    /\ \E i \in 1..Len(hist) : hist[i] = "fail"
    /\ health.metrics.is_healthy
    /\ health.metrics.consecutive_healthy > health.required_healthy_streak

\* the number of analyze calls since construction or the last reset
AnalyzeCallsSinceReset ==
    LET resets == {i \in 1..Len(hist) : hist[i] = "reset"}
        latest == IF resets = {} THEN 0
                  ELSE CHOOSE i \in resets : \A j \in resets : j <= i
    IN  Len(hist) - latest

\* C29: consecutive_healthy and consecutive_unhealthy are never both
\* non-zero; last_violation is present exactly when consecutive_unhealthy > 0;
\* total_samples equals the number of analyze calls since construction or the
\* last reset; latest_stats is present exactly when total_samples > 0.
C29_Counters ==
    /\ ~(health.metrics.consecutive_healthy > 0
          /\ health.metrics.consecutive_unhealthy > 0)
    /\ IsSome(health.metrics.last_violation)
          <=> health.metrics.consecutive_unhealthy > 0
    /\ health.metrics.total_samples = AnalyzeCallsSinceReset
    /\ IsSome(health.metrics.latest_stats) <=> health.metrics.total_samples > 0

\* a failure, a reset, then a failure followed by a pass
C29_Witness ==
    /\ hist = <<"fail", "reset", "fail", "pass">>
    /\ health.metrics.total_samples = 2
    /\ health.metrics.consecutive_healthy = 1
    /\ health.metrics.consecutive_unhealthy = 0
    /\ health.metrics.last_violation = None
    /\ IsSome(health.metrics.latest_stats)

\* C30: a streak requirement of 0 passed to with_streak_requirement is
\* clamped to 1: the monitor starts unhealthy and needs one passing analyze
\* before allow_reseed() is true.
C30_ZeroStreakClamped ==
    (Built.op = "with_streak_requirement" /\ Built.streak = 0) =>
        /\ health.required_healthy_streak = 1
        /\ hist = <<>> => ~allow_reseed(health)
        /\ allow_reseed(health) <=> (hist # <<>> /\ hist[Len(hist)] = "pass")

\* the first passing sample of a monitor built with requirement 0
C30_Witness ==
    /\ Built.op = "with_streak_requirement"
    /\ Built.streak = 0
    /\ hist = <<"pass">>
    /\ last.op = "analyze"
    /\ ~allow_reseed(last.pre)
    /\ allow_reseed(health)

----------------------------------------------------------------------------
(* Properties of the mock camera (SpecCamera) *)

\* C27: capture() fails with NotInitialized whenever the camera is not open
\* (before open and after close); after a successful open, captures return
\* valid frames of the configured width and height with sequence numbers
\* 1, 2, 3, ...; open with an invalid configuration fails with ConfigFailed
\* and changes nothing.
C27_Lifecycle ==
    /\ (last.op = "capture" /\ ~MockCamera_is_open(last.pre)) =>
          /\ last.ret = Err([kind |-> "NotInitialized"])
          /\ driver = last.pre
    /\ (last.op = "capture" /\ MockCamera_is_open(last.pre)) =>
          /\ "frame" \in DOMAIN last.ret
          /\ Frame_is_valid(last.ret.frame)
          /\ last.ret.frame.width = last.pre.config.some.width
          /\ last.ret.frame.height = last.pre.config.some.height
          /\ last.ret.frame.sequence = hist.captures
    /\ (last.op = "open" /\ ~IsOk(CaptureConfig_validate(last.config))) =>
          /\ "err" \in DOMAIN last.ret
          /\ last.ret.err.kind = "ConfigFailed"
          /\ driver = last.pre

----------------------------------------------------------------------------
(* Further properties of the driving loops (SpecDriver, SpecDriverFair) *)

\* C33: in generate_random the extract-and-reseed after the collection loop
\* has no allow_reseed() check of its own, yet it yields a seed only if the
\* loop was left through the break with allow_reseed() true: the pool is
\* never ready at the end of the loop while the monitor is unhealthy.
C33_SeedOnlyThroughBreak ==
    driver.mode = "generate_random" =>
        /\ driver.pc \in {"loop", "reseed"} => (is_ready(pool) => allow_reseed(health))
        /\ (last.op = "reseed" /\ last.reseed # None) =>
              /\ last.reseed.some.healthy
              /\ 8 * last.reseed.some.pool_bytes >= last.reseed.some.min_bits
        /\ (last.op = "reseed" /\ last.reseed = None) =>
              /\ driver.i = GENERATE_PASSES
              /\ ~is_ready(last.pre.pool)

\* a seed is extracted after the loop was left early, a sample having failed
C33_Witness ==
    /\ driver.mode = "generate_random"
    /\ last.op = "reseed"
    /\ last.reseed # None
    /\ last.reseed.some.healthy
    /\ driver.i < GENERATE_PASSES
    /\ \E k \in 1..Len(hist.outcomes) : hist.outcomes[k] = "fail"

\* C34: in run_pipeline the pool only ever holds bytes of samples after
\* whose analysis the monitor was healthy: a sample that fails the threshold
\* check, and a passing sample seen before the streak is met, is never added.
C34_PoolHoldsHealthySamples ==
    driver.mode = "run_pipeline" =>
        /\ pool.buffer = hist.pooled
        /\ (last.op = "frame" /\ last.analyzed /\ ~allow_reseed(health)) =>
              /\ ~last.added
              /\ pool = last.pre.pool

\* three samples passed, only the third was pooled
C34_Witness ==
    /\ driver.mode = "run_pipeline"
    /\ hist.outcomes = <<"pass", "pass", "pass">>
    /\ last.added
    /\ Len(pool.buffer) = driver.frame_len
    /\ pool.buffer = hist.pooled

\* C35: in run_pipeline with the default monitor (streak 3) no reseed happens
\* before the 4th successfully captured frame (one priming frame and three
\* passing samples), and after a failing sample at least three further
\* consecutive passing samples are needed before the next reseed.
C35_ReseedNeedsThreePasses ==
    (driver.mode = "run_pipeline" /\ last.reseed # None) =>
        /\ driver.camera_sequence >= 4
        /\ TrailingPasses(hist.outcomes) >= 3

\* a reseed on the third pass after a failure
C35_Witness ==
    /\ driver.mode = "run_pipeline"
    /\ last.reseed # None
    /\ hist.outcomes = <<"fail", "pass", "pass", "pass">>
    /\ driver.camera_sequence = 5

\* C36: in run_pipeline, after any number of cycles, rng.reseed_count() equals
\* the local total_reseeds, and reseed_count() <= pool.total_extractions() <=
\* number of samples analyzed as healthy; a seed rejected by reseed leaves
\* the pool already emptied and the generator unchanged.
C36_ReseedAccounting ==
    driver.mode = "run_pipeline" =>
        /\ rng.reseed_count = driver.total_reseeds
        /\ rng.reseed_count <= pool.total_extractions
        /\ pool.total_extractions <= hist.healthy
        /\ (last.reseed # None /\ ~IsOk(last.reseed.some.result)) =>
              /\ size_bytes(pool) = 0
              /\ rng = last.pre.rng

\* a rejected seed: one extraction, no reseed counted
C36_Witness ==
    /\ driver.mode = "run_pipeline"
    /\ last.reseed # None
    /\ ~IsOk(last.reseed.some.result)
    /\ size_bytes(last.pre.pool) > 0
    /\ size_bytes(pool) = 0
    /\ pool.total_extractions = 1
    /\ rng.reseed_count = 0
    /\ hist.healthy = 2

\* continuous mode with the running flag cleared
Stopped == driver.mode = "run_pipeline" /\ driver.continuous /\ ~driver.running

\* C37: in continuous mode, once the Ctrl+C handler has cleared the running
\* flag, run_pipeline leaves its loop at the next evaluation of the loop
\* condition, also when every capture attempt is failing, and then emits the
\* final output.
C37_CtrlCStopsLoop ==
    /\ [][(Stopped /\ driver.pc = "loop") =>
            /\ driver'.pc = "done"
            /\ driver'.output # None
            /\ driver'.attempts = driver.attempts]_vars
    /\ Stopped ~> (driver.pc = "done" /\ driver.output # None)

\* stopped and finished after nothing but failed captures
C37_Witness ==
    /\ Stopped
    /\ driver.camera = "dead"
    /\ driver.attempts >= 2
    /\ driver.failures = driver.attempts
    /\ driver.pc = "done"
    /\ driver.output # None

----------------------------------------------------------------------------
(* Further properties of the entropy pool (SpecPool) *)

\* C31 as stated: for every configuration, extract() on a pool with
\* size_bytes() = 0 returns nothing.
C31_AsStated ==
    (last.op = "extract" /\ size_bytes(last.pre) = 0) => last.ret = None

\* C31: for every configuration with min_bits > 0, extract() on a pool with
\* size_bytes() = 0 returns nothing.
C31_EmptyPoolNoSeed ==
    (/\ last.op = "extract"
     /\ size_bytes(last.pre) = 0
     /\ last.pre.config.min_bits > 0) => last.ret = None

\* extract on a pool that was filled and emptied before
C31_Witness ==
    /\ last.op = "extract"
    /\ size_bytes(last.pre) = 0
    /\ last.pre.config.min_bits > 0
    /\ last.pre.total_bits_added > 0
    /\ last.ret = None
    /\ pool = last.pre

\* C32: each add increases total_bits_added by 8 times the number of bytes
\* actually appended (bytes dropped by truncation are not counted); extract
\* and clear never change it; so total_bits_added always equals
\* 8 * (bytes currently buffered + bytes removed by extract or clear).
C32_PoolAccounting ==
    /\ last.op = "add" =>
          pool.total_bits_added
              = last.pre.total_bits_added + 8 * (Len(pool.buffer) - Len(last.pre.buffer))
    /\ last.op \in {"extract", "clear"} =>
          pool.total_bits_added = last.pre.total_bits_added
    /\ pool.total_bits_added = 8 * (Len(pool.buffer) + hist.removed)

\* a truncated add after bytes were removed
C32_Witness ==
    /\ last.op = "add"
    /\ hist.removed > 0
    /\ Len(last.pre.buffer) > 0
    /\ Len(pool.buffer) - Len(last.pre.buffer) < Len(last.raw.data)
    /\ Len(pool.buffer) > Len(last.pre.buffer)
    /\ pool.total_bits_added = 8 * (Len(pool.buffer) + hist.removed)

\* min_bits asks for more than the pool can ever hold
Unreachable(p) == p.config.min_bits > 8 * p.config.max_bytes

\* C38: if min_bits <= 8 * max_bytes, repeatedly adding non-empty buffers
\* eventually makes is_ready() true; if min_bits > 8 * max_bytes, is_ready()
\* is false in every reachable state and extract() never returns a seed.
C38_PoolLiveness ==
    /\ ~Unreachable(pool) => <>is_ready(pool)
    /\ [](Unreachable(pool) =>
            /\ ~is_ready(pool)
            /\ last.op = "extract" => last.ret = None)

\* a pool that needed all of its capacity, filled by a truncated add
C38_Witness ==
    /\ last.op = "add"
    /\ pool.config.min_bits = 8 * pool.config.max_bytes
    /\ pool.config.max_bytes > 0
    /\ ~is_ready(last.pre)
    /\ Len(last.raw.data) > Len(pool.buffer) - Len(last.pre.buffer)
    /\ is_ready(pool)

----------------------------------------------------------------------------
(* Properties of CaptureConfig::validate (SpecValidate) *)

\* C39: validate returns Ok exactly when width > 0, height > 0,
\* exposure_us > 0 and 1 <= fps <= 120; when several fields are invalid the
\* reported error follows the fixed precedence InvalidDimensions, then
\* InvalidExposure, then InvalidFrameRate.
C39_Validate ==
    last.op = "validate" =>
        LET config == last.config
            dimensions_bad == ~(config.width > 0 /\ config.height > 0)
            exposure_bad == ~(config.exposure_us > 0)
            rate_bad == ~(1 <= config.fps /\ config.fps <= 120)
        IN  /\ last.ret = Ok <=> ~(dimensions_bad \/ exposure_bad \/ rate_bad)
            /\ dimensions_bad => last.ret = Err("InvalidDimensions")
            /\ (~dimensions_bad /\ exposure_bad) => last.ret = Err("InvalidExposure")
            /\ (~dimensions_bad /\ ~exposure_bad /\ rate_bad)
                  => last.ret = Err("InvalidFrameRate")

\* all three checks would fail: the dimensions are what is reported
C39_Witness ==
    /\ last.op = "validate"
    /\ last.config.height = 0
    /\ last.config.exposure_us = 0
    /\ last.config.fps = 121
    /\ last.ret = Err("InvalidDimensions")

----------------------------------------------------------------------------
(* Further properties of the spatial mixer (SpecMixer) *)

RECURSIVE XorAll(_)
\* the XOR of all bytes of a buffer
XorAll(data) ==
    IF data = <<>> THEN 0
    ELSE BitXor(data[1], XorAll(SubSeq(data, 2, Len(data))))

\* C40: whenever the mixer's stride is a multiple of the buffer length
\* (including every 1-byte buffer), mix pairs each byte with itself and
\* returns all zeros whatever the input content; and for every input the XOR
\* of all output bytes is 0.
C40_DegenerateStride ==
    last.op = "mix" =>
        /\ (last.data # <<>> /\ extractor.spatial.stride % Len(last.data) = 0)
              => last.ret = [i \in 1..Len(last.data) |-> 0]
        /\ XorAll(last.ret) = 0

\* a stride of twice the length of a buffer of two different bytes
C40_Witness ==
    /\ last.op = "mix"
    /\ Len(last.data) = 2
    /\ last.data[1] # last.data[2]
    /\ extractor.spatial.stride = 2 * Len(last.data)
    /\ last.ret = <<0, 0>>

============================================================================
